---- MODULE Spec2Model ----
(***************************************************************************)
(* Model of the opsagent workflows.                                        *)
(*                                                                         *)
(*   src/opsagent/workflows/dynamic_workflow.py   plan / execute / review  *)
(*   src/opsagent/workflows/triage_workflow.py    fan-out / fan-in triage  *)
(*                                                                         *)
(* A run is a set of messages in flight between executors, the per-run     *)
(* shared state, the local state of the orchestrator handler while its     *)
(* worker calls are outstanding, and the outputs yielded so far.  Every    *)
(* handler is one action; a handler that awaits worker calls is split at   *)
(* its suspension points.  Text is a sequence of tokens.                   *)
(***************************************************************************)
EXTENDS Integers, Sequences, FiniteSets, TLC

VARIABLES
    workflow,    \* which workflow object runs: "dynamic" or "triage"
    status,      \* "running" or "failed" (a handler raised)
    pending,     \* messages in flight: [to |-> executor id, data |-> message]
    shared,      \* the run's shared state (ctx.set_shared_state)
    orch,        \* DynamicOrchestrator handler state while a plan runs
    outputs,     \* texts passed to ctx.yield_output, in order
    fanin,       \* triage: AgentResponses buffered at the fan-in edge group
    calls,       \* triage: the agent call in flight of each filtered executor
    active,      \* id of the executor whose handler ran last ("" before any)
    execPhases,  \* history: Execute phases started so far (saturating)
    reviews,     \* history: Review activations so far (saturating)
    produced,    \* history: ExecutionResults made by run_single_task (saturating)
    gathered,    \* history: tasks, completion order and results of the gather that just returned
    prompt,      \* history: the prompt of the last reviewer call
    obs,         \* flask_app: the current stream, the streams and the requests
    store        \* ChatHistoryManager in redis mode: PostgreSQL rows and Redis keys

vars == <<workflow, status, pending, shared, orch, outputs, fanin, calls,
          active, execPhases, reviews, produced, gathered, prompt, obs, store>>

-----------------------------------------------------------------------------
(* Bounds of the model *)

MaxPlanLen == 2
MaxStepNum == 2
MaxResults == 2
MaxPhases == 3
MaxAgentCalls == 2

\* the history counter of produced results saturates above every number of
\* results a run can hold
MaxProduced == MaxResults + MaxPlanLen

-----------------------------------------------------------------------------
(* Data drawn by the collaborators *)

\* PlanStep.agent is Literal["servicenow", "log_analytics", "service_health"]
Agents == {"servicenow", "log_analytics", "service_health"}

\* PlanStep.step is an unconstrained int: 0 is accepted by the schema
StepNums == 0..MaxStepNum

Questions == {"check"}

Responses == {"answer"}

Summaries == {"", "done"}

Reasons == {"", "why"}

PlanSteps == [step : StepNums, agent : Agents, question : Questions]

\* the modelled planner gives the i-th task of a plan to the i-th agent, so
\* that the tasks of a plan differ in more than their step numbers
AgentOrder == <<"servicenow", "log_analytics", "service_health">>

AgentAt(i) == AgentOrder[((i - 1) % Len(AgentOrder)) + 1]

PlansUpTo(n) ==
    UNION {{plan \in [1..k -> PlanSteps] :
                \A i \in 1..k : plan[i].agent = AgentAt(i)} : k \in 0..n}

Min(a, b) == IF a < b THEN a ELSE b

SeqRange(s) == {s[i] : i \in 1..Len(s)}

-----------------------------------------------------------------------------
(* dict[int, list[ExecutionResult]] is a function from its keys to sequences *)

EmptyResults == [k \in {} |-> <<>>]

MaxKey(results) == CHOOSE k \in DOMAIN results : \A j \in DOMAIN results : j <= k

\* number of ExecutionResults held in a results dict
RECURSIVE SumLens(_, _)
SumLens(results, keys) ==
    IF keys = {} THEN 0
    ELSE LET k == CHOOSE x \in keys : TRUE
         IN  Len(results[k]) + SumLens(results, keys \ {k})

NumResults(results) == SumLens(results, DOMAIN results)

\* variant: the keys in descending order
RECURSIVE SortedKeys_Descending(_)
SortedKeys_Descending(keys) ==
    IF keys = {} THEN <<>>
    ELSE LET m == CHOOSE x \in keys : \A y \in keys : x >= y
         IN  <<m>> \o SortedKeys_Descending(keys \ {m})

\* sorted(d.keys())
RECURSIVE SortedKeys(_)
SortedKeys(keys) ==
    IF keys = {} THEN <<>>
    ELSE LET m == CHOOSE x \in keys : \A y \in keys : x <= y
         IN  <<m>> \o SortedKeys(keys \ {m})

-----------------------------------------------------------------------------
(* Text: a sequence of tokens; the empty sequence is the empty string *)

Str(s) == IF s = "" THEN <<>> ELSE <<s>>

RECURSIVE Join(_, _)
Join(sep, parts) ==
    IF parts = <<>> THEN <<>>
    ELSE IF Len(parts) = 1 THEN parts[1]
    ELSE parts[1] \o <<sep>> \o Join(sep, Tail(parts))

\* result.agent.replace("_", " ").title()
AgentTitle(agent) ==
    CASE agent = "servicenow" -> "Servicenow"
      [] agent = "log_analytics" -> "Log Analytics"
      [] agent = "service_health" -> "Service Health"

\* the results of a dict in ascending key order, flattened
RECURSIVE FlattenResults(_, _)
FlattenResults(results, keys) ==
    IF keys = <<>> THEN <<>>
    ELSE results[Head(keys)] \o FlattenResults(results, Tail(keys))

ResultsInOrder(results) == FlattenResults(results, SortedKeys(DOMAIN results))

_format_final_output(results, note) ==
    LET rs == ResultsInOrder(results)
        sections == [i \in 1..Len(rs) |->
                        <<"## ", AgentTitle(rs[i].agent), "\n">> \o Str(rs[i].response)]
        output == Join("\n\n---\n\n", sections)
    IN  IF note # "" THEN output \o <<"\n\n---\n\n*Note: ", note, "*">>
        ELSE output

\* variant: the template does not carry the reason
RejectText_NoReason(reject_reason) ==
    <<"I don't have knowledge about that topic. ", "\n\nI can only help with:">>

RejectText(reject_reason) ==
    <<"I don't have knowledge about that topic. ">> \o Str(reject_reason)
        \o <<"\n\nI can only help with:">>

ClarifyText(output) ==
    Str(output.clarification_request) \o <<"\n\nPossible interpretations:\n">>
        \o Join("\n", [i \in 1..Len(output.possible_interpretations) |->
                          <<"  - ", output.possible_interpretations[i]>>])

\* the context block _run_plan builds from the previous step's results
ContextOf(prev_results) ==
    IF prev_results = <<>> THEN <<>>
    ELSE <<"Previous step results:\n">> \o
         Join("\n", [i \in 1..Len(prev_results) |->
                        <<"---\nAgent: ", prev_results[i].agent,
                          "\nQuestion: ", prev_results[i].question,
                          "\nResponse: ">> \o Str(prev_results[i].response)
                          \o <<"\n---">>])

\* variant: the context is never put in front of the question
TaskMessage_NoContext(context, task) == <<task.question>>

\* the message run_single_task sends to the worker
TaskMessage(context, task) ==
    IF context # <<>> THEN context \o <<"\n\nYour task: ", task.question>>
    ELSE <<task.question>>

ExecutionResult(task, response) ==
    [agent |-> task.agent, question |-> task.question, response |-> response]

-----------------------------------------------------------------------------
(* Inputs and collaborator outputs *)

\* WorkflowInput: query mode (DevUI) or message history (Flask)
WorkflowInputs ==
    { [query |-> "status?", messages |-> <<>>],
      [query |-> "",
       messages |-> << [role |-> "user", text |-> "status?"],
                       [role |-> "assistant", text |-> "which one?"] >>] }

UserModeOutputs ==
    [should_reject : BOOLEAN, reject_reason : Reasons, clarify : BOOLEAN,
     plan : PlansUpTo(MaxPlanLen)]

ClarifyOutputs ==
    [clarification_request : {"please clarify"},
     possible_interpretations : {<<>>, <<"health">>, <<"health", "logs">>}]

\* missing_aspects, suggested_approach and confidence only reach prompt text;
\* summary is read only by the aggregator, which is_complete selects
ReviewOutputs ==
    [is_complete : {TRUE}, summary : Summaries]
    \cup [is_complete : {FALSE}, summary : {""}]

\* new_plan is read only when accept_review holds, rejection_reason only
\* when output_existing is selected
ReviewModeOutputs ==
    [accept_review : {TRUE}, new_plan : PlansUpTo(MaxPlanLen) \ {<<>>},
     rejection_reason : {""}]
    \cup [accept_review : {TRUE}, new_plan : {<<>>}, rejection_reason : Reasons]
    \cup [accept_review : {FALSE}, new_plan : PlansUpTo(1),
          rejection_reason : Reasons]

-----------------------------------------------------------------------------
(* Shared state *)

InitShared ==
    [written |-> {},
     conversation_history |-> <<>>,
     original_query |-> "",
     is_retry |-> FALSE,
     retry_count |-> 0,
     current_plan |-> <<>>,
     execution_results |-> EmptyResults,
     review_decision |-> <<>>,
     tasks |-> <<>>]

set_shared_state(s, key, value) ==
    [s EXCEPT ![key] = value, !["written"] = @ \cup {key}]

-----------------------------------------------------------------------------
(* Selection functions of the multi-selection edge groups *)

\* variant: clarify is tested before should_reject
select_user_triage_path_ClarifyFirst(triage, target_ids) ==
    LET reject_id == target_ids[1]
        clarify_id == target_ids[2]
        orchestrator_id == target_ids[3]
    IN  IF triage.clarify THEN <<clarify_id>>
        ELSE IF triage.should_reject THEN <<reject_id>>
        ELSE <<orchestrator_id>>

select_user_triage_path(triage, target_ids) ==
    LET reject_id == target_ids[1]
        clarify_id == target_ids[2]
        orchestrator_id == target_ids[3]
    IN  IF triage.should_reject
        THEN IF triage.clarify THEN <<clarify_id>> ELSE <<reject_id>>
        ELSE <<orchestrator_id>>

\* variant: the two targets are swapped
select_review_outcome_Swapped(decision, target_ids) ==
    LET aggregator_id == target_ids[1]
        triage_id == target_ids[2]
    IN  IF decision.is_complete THEN <<triage_id>> ELSE <<aggregator_id>>

\* variant: an incomplete decision is also sent to the aggregator
select_review_outcome_Both(decision, target_ids) ==
    LET aggregator_id == target_ids[1]
        triage_id == target_ids[2]
    IN  IF decision.is_complete THEN <<aggregator_id>>
        ELSE <<aggregator_id, triage_id>>

select_review_outcome(decision, target_ids) ==
    LET aggregator_id == target_ids[1]
        triage_id == target_ids[2]
    IN  IF decision.is_complete THEN <<aggregator_id>> ELSE <<triage_id>>

\* variant: the emptiness of new_plan is not tested
select_triage_review_outcome_AnyPlan(triage, target_ids) ==
    LET orchestrator_id == target_ids[1]
        output_id == target_ids[2]
    IN  IF triage.accept_review THEN <<orchestrator_id>> ELSE <<output_id>>

select_triage_review_outcome(triage, target_ids) ==
    LET orchestrator_id == target_ids[1]
        output_id == target_ids[2]
    IN  IF triage.accept_review /\ triage.new_plan # <<>>
        THEN <<orchestrator_id>>
        ELSE <<output_id>>

-----------------------------------------------------------------------------
(* Edges of create_dynamic_workflow *)

UserTriageTargets == <<"reject_query", "clarify_executor", "orchestrator">>
ReviewTargets == <<"final_aggregator", "triage_review_bridge">>
TriageReviewTargets == <<"orchestrator", "output_existing">>

\* plain edge
Edge(to, data) == {[to |-> to, data |-> data]}

\* multi-selection edge group: one delivery per selected id
Selected(ids, data) == {[to |-> id, data |-> data] : id \in SeqRange(ids)}

-----------------------------------------------------------------------------
(* Engine *)

DynamicRunning == workflow = "dynamic" /\ status = "running"

TriageRunning == workflow = "triage" /\ status = "running"

\* the message delivered to executor id, of the given type
Inbox(id, type) == {m \in pending : m.to = id /\ m.data.type = type}

\* variant: a failing run yields the results stored so far
Fail_YieldPartial(id) ==
    /\ status' = "failed"
    /\ pending' = {}
    /\ active' = id
    /\ outputs' = Append(outputs, <<"partial">>)
    /\ UNCHANGED <<workflow, fanin, calls, shared, execPhases, reviews, produced,
                   gathered, obs, store>>

\* a handler raised: the run fails, nothing further is routed
Fail(id) ==
    /\ status' = "failed"
    /\ pending' = {}
    /\ active' = id
    /\ UNCHANGED <<workflow, fanin, calls, shared, outputs, execPhases, reviews,
                   produced, gathered, obs, store>>

-----------------------------------------------------------------------------
(* Input processing *)

\* the text of the latest user message, "" when there is none
RECURSIVE LatestUserText(_)
LatestUserText(chat_messages) ==
    IF chat_messages = <<>> THEN ""
    ELSE LET last == chat_messages[Len(chat_messages)]
         IN  IF last.role = "user" THEN last.text
             ELSE LatestUserText(SubSeq(chat_messages, 1, Len(chat_messages) - 1))

ChatMessages(input) ==
    IF input.messages # <<>>
    THEN [i \in 1..Len(input.messages) |->
             [role |-> IF input.messages[i].role = "user" THEN "user" ELSE "assistant",
              text |-> input.messages[i].text]]
    ELSE <<[role |-> "user", text |-> input.query]>>

\* variant: the retry tracking is not initialised
store_query_NoReset ==
    /\ DynamicRunning
    /\ \E m \in Inbox("store_query", "WorkflowInput") :
         LET chat_messages == ChatMessages(m.data)
             latest_query == LatestUserText(chat_messages)
             s1 == set_shared_state(shared, "conversation_history", chat_messages)
             s2 == set_shared_state(s1, "original_query", latest_query)
         IN  /\ shared' = s2
             /\ pending' = (pending \ {m}) \cup
                    Edge("user_mode_triage",
                         [type |-> "UserModeRequest",
                          messages |-> chat_messages,
                          original_query |-> latest_query])
    /\ active' = "store_query"
    /\ UNCHANGED <<workflow, fanin, calls, status, orch, outputs, execPhases, reviews,
                   produced, gathered, prompt, obs, store>>

store_query ==
    /\ DynamicRunning
    /\ \E m \in Inbox("store_query", "WorkflowInput") :
         LET chat_messages == ChatMessages(m.data)
             latest_query == LatestUserText(chat_messages)
             s1 == set_shared_state(shared, "conversation_history", chat_messages)
             s2 == set_shared_state(s1, "original_query", latest_query)
             s3 == set_shared_state(s2, "is_retry", FALSE)
             s4 == set_shared_state(s3, "retry_count", 0)
         IN  /\ shared' = s4
             /\ pending' = (pending \ {m}) \cup
                    Edge("user_mode_triage",
                         [type |-> "UserModeRequest",
                          messages |-> chat_messages,
                          original_query |-> latest_query])
    /\ active' = "store_query"
    /\ UNCHANGED <<workflow, fanin, calls, status, orch, outputs, execPhases, reviews,
                   produced, gathered, prompt, obs, store>>

-----------------------------------------------------------------------------
(* User mode triage and its routing *)

TriageUserResult(output, original_query) ==
    [type |-> "TriageUserResult",
     should_reject |-> output.should_reject,
     reject_reason |-> output.reject_reason,
     clarify |-> output.clarify,
     plan |-> output.plan,
     original_query |-> original_query]

\* UserModeTriageExecutor.handle, the planner returning a schema-valid output
UserModeTriage ==
    /\ DynamicRunning
    /\ \E m \in Inbox("user_mode_triage", "UserModeRequest") :
       \E output \in UserModeOutputs :
         pending' = (pending \ {m}) \cup
             Edge("route_user_triage",
                  TriageUserResult(output, m.data.original_query))
    /\ active' = "user_mode_triage"
    /\ UNCHANGED <<workflow, fanin, calls, status, shared, orch, outputs, execPhases,
                   reviews, produced, gathered, prompt, obs, store>>

\* UserModeOutput.model_validate_json raises
UserModeTriageInvalid ==
    /\ DynamicRunning
    /\ Inbox("user_mode_triage", "UserModeRequest") # {}
    /\ Fail("user_mode_triage")
    /\ UNCHANGED <<orch, prompt>>

route_user_triage ==
    /\ DynamicRunning
    /\ \E m \in Inbox("route_user_triage", "TriageUserResult") :
         /\ shared' = set_shared_state(shared, "current_plan", m.data.plan)
         /\ pending' = (pending \ {m}) \cup
                Selected(select_user_triage_path(m.data, UserTriageTargets), m.data)
    /\ active' = "route_user_triage"
    /\ UNCHANGED <<workflow, fanin, calls, status, orch, outputs, execPhases, reviews,
                   produced, gathered, prompt, obs, store>>

reject_query ==
    /\ DynamicRunning
    /\ \E m \in Inbox("reject_query", "TriageUserResult") :
         /\ outputs' = Append(outputs, RejectText(m.data.reject_reason))
         /\ pending' = pending \ {m}
    /\ active' = "reject_query"
    /\ UNCHANGED <<workflow, fanin, calls, status, shared, orch, execPhases, reviews,
                   produced, gathered, prompt, obs, store>>

\* ClarifyExecutor.handle, the clarifier returning a schema-valid output
Clarify ==
    /\ DynamicRunning
    /\ \E m \in Inbox("clarify_executor", "TriageUserResult") :
       \E output \in ClarifyOutputs :
         /\ outputs' = Append(outputs, ClarifyText(output))
         /\ pending' = pending \ {m}
    /\ active' = "clarify_executor"
    /\ UNCHANGED <<workflow, fanin, calls, status, shared, orch, execPhases, reviews,
                   produced, gathered, prompt, obs, store>>

\* ClarifyOutput.model_validate_json raises
ClarifyInvalid ==
    /\ DynamicRunning
    /\ Inbox("clarify_executor", "TriageUserResult") # {}
    /\ Fail("clarify_executor")
    /\ UNCHANGED <<orch, prompt>>

-----------------------------------------------------------------------------
(* Dynamic orchestrator *)

IdleOrch ==
    [running |-> FALSE, retry |-> FALSE, original_query |-> "",
     plan |-> <<>>, existing |-> EmptyResults, all_results |-> EmptyResults,
     step |-> -1, context |-> <<>>, tstate |-> <<>>, sent |-> <<>>,
     tresp |-> <<>>, done |-> <<>>]

\* d.get(k), None read as the empty list
Get(d, k) == IF k \in DOMAIN d THEN d[k] ELSE <<>>

\* d[k] = v
DictSet(d, k, v) == [j \in DOMAIN d \cup {k} |-> IF j = k THEN v ELSE d[j]]

PlanStepNums(plan) == {plan[i].step : i \in 1..Len(plan)}

\* steps_grouped[step_num]: the indices of the step's tasks, in plan order
RECURSIVE StepTasks(_, _, _)
StepTasks(plan, step_num, i) ==
    IF i > Len(plan) THEN <<>>
    ELSE (IF plan[i].step = step_num THEN <<i>> ELSE <<>>)
             \o StepTasks(plan, step_num, i + 1)

\* the step numbers of the loop "for step_num in sorted(steps_grouped.keys())"
\* that come after step o.step
StepsLeft(o) == {n \in PlanStepNums(o.plan) : n > o.step}

\* variant: the steps are taken in plan order, without sorted()
NextStep_PlanOrder(o) ==
    LET first == CHOOSE i \in 1..Len(o.plan) :
                     /\ o.plan[i].step \in StepsLeft(o)
                     /\ \A j \in 1..(i - 1) : o.plan[j].step \notin StepsLeft(o)
    IN  o.plan[first].step

NextStep(o) == CHOOSE n \in StepsLeft(o) : \A k \in StepsLeft(o) : n <= k

\* one iteration of the loop up to the gather: context of step N-1, then a
\* coroutine per task of the step
BeginStep(o, step_num) ==
    LET prev_step == step_num - 1
        prev_results == IF Get(o.all_results, prev_step) # <<>>
                        THEN Get(o.all_results, prev_step)
                        ELSE Get(o.existing, prev_step)
    IN  [o EXCEPT !.step = step_num,
                  !.context = ContextOf(prev_results),
                  !.done = <<>>,
                  !.tstate = [i \in 1..Len(o.plan) |->
                                 IF o.plan[i].step = step_num THEN "created"
                                 ELSE o.tstate[i]]]

\* variant: the results are listed as the tasks complete
StepResultList_CompletionOrder(o, step_num) ==
    [j \in 1..Len(o.done) |-> ExecutionResult(o.plan[o.done[j]], o.tresp[o.done[j]])]

\* the list asyncio.gather returns: one result per task, in submission order
StepResultList(o, step_num) ==
    LET idx == StepTasks(o.plan, step_num, 1)
    IN  [j \in 1..Len(idx) |-> ExecutionResult(o.plan[idx[j]], o.tresp[idx[j]])]

\* execute_new_plan: merged_results[max_step + step_num] = step_results
MergeResults(previous_results, new_results) ==
    LET max_step == IF DOMAIN previous_results # {} THEN MaxKey(previous_results)
                    ELSE 0
        moved == {max_step + n : n \in DOMAIN new_results}
    IN  [k \in DOMAIN previous_results \cup moved |->
            IF k \in moved THEN new_results[k - max_step]
            ELSE previous_results[k]]

\* the results the handler stores and sends to review
HandlerResults(o) ==
    IF o.retry THEN MergeResults(o.existing, o.all_results) ELSE o.all_results

\* variant: the request is never flagged as a retry
ReviewRequest_NotRetry(o) ==
    [type |-> "ReviewRequest",
     original_query |-> o.original_query,
     execution_results |-> HandlerResults(o),
     is_retry |-> FALSE]

ReviewRequest(o) ==
    [type |-> "ReviewRequest",
     original_query |-> o.original_query,
     execution_results |-> HandlerResults(o),
     is_retry |-> o.retry]

\* variant: nothing is stored or sent when the plan produced no results
OrchProceed_SkipEmpty(o, rest) ==
    IF StepsLeft(o) # {}
    THEN /\ orch' = BeginStep(o, NextStep(o))
         /\ pending' = rest
         /\ UNCHANGED shared
    ELSE /\ orch' = IdleOrch
         /\ IF DOMAIN HandlerResults(o) # {}
            THEN /\ shared' = set_shared_state(shared, "execution_results",
                                               HandlerResults(o))
                 /\ pending' = rest \cup Edge("review_executor", ReviewRequest(o))
            ELSE /\ pending' = rest
                 /\ UNCHANGED shared

\* variant: the results are stored after every step of the plan
OrchProceed_StoreEachStep(o, rest) ==
    /\ shared' = set_shared_state(shared, "execution_results", HandlerResults(o))
    /\ IF StepsLeft(o) # {}
       THEN /\ orch' = BeginStep(o, NextStep(o))
            /\ pending' = rest
       ELSE /\ orch' = IdleOrch
            /\ pending' = rest \cup Edge("review_executor", ReviewRequest(o))

\* continue the handler from the top of the step loop: the next step's
\* gather, or the store and send after the loop
OrchProceed(o, rest) ==
    IF StepsLeft(o) # {}
    THEN /\ orch' = BeginStep(o, NextStep(o))
         /\ pending' = rest
         /\ UNCHANGED shared
    ELSE /\ orch' = IdleOrch
         /\ shared' = set_shared_state(shared, "execution_results", HandlerResults(o))
         /\ pending' = rest \cup Edge("review_executor", ReviewRequest(o))

StartPlan(plan, existing, original_query, retry) ==
    [IdleOrch EXCEPT !.running = TRUE, !.retry = retry,
                     !.original_query = original_query,
                     !.plan = plan, !.existing = existing,
                     !.tstate = [i \in 1..Len(plan) |-> "waiting"],
                     !.sent = [i \in 1..Len(plan) |-> <<>>],
                     !.tresp = [i \in 1..Len(plan) |-> ""]]

\* DynamicOrchestrator.execute_plan -> _execute(plan, query, ctx, False)
execute_plan ==
    /\ DynamicRunning
    /\ ~orch.running
    /\ \E m \in Inbox("orchestrator", "TriageUserResult") :
         OrchProceed(StartPlan(m.data.plan, EmptyResults,
                               m.data.original_query, FALSE),
                     pending \ {m})
    /\ active' = "orchestrator"
    /\ execPhases' = Min(execPhases + 1, MaxPhases)
    /\ UNCHANGED <<workflow, fanin, calls, status, outputs, reviews, produced, gathered,
                   prompt, obs, store>>

\* DynamicOrchestrator.execute_new_plan
execute_new_plan ==
    /\ DynamicRunning
    /\ ~orch.running
    /\ \E m \in Inbox("orchestrator", "TriageReviewResult") :
         OrchProceed(StartPlan(m.data.new_plan, shared.execution_results,
                               shared.original_query, TRUE),
                     pending \ {m})
    /\ active' = "orchestrator"
    /\ execPhases' = Min(execPhases + 1, MaxPhases)
    /\ UNCHANGED <<workflow, fanin, calls, status, outputs, reviews, produced, gathered,
                   prompt, obs, store>>

\* variant: the tasks of a step are awaited one after the other
CanStart_Sequential(o, i) ==
    \A j \in 1..(i - 1) : o.tstate[j] \notin {"created", "called"}

\* asyncio.gather wraps every coroutine in a task before it suspends; the
\* event loop runs the tasks up to their first await in submission order
CanStart(o, i) == \A j \in 1..(i - 1) : o.tstate[j] # "created"

\* run_single_task up to "await agent.run"
TaskStart(i) ==
    /\ DynamicRunning
    /\ orch.running
    /\ orch.tstate[i] = "created"
    /\ CanStart(orch, i)
    /\ orch' = [orch EXCEPT !.tstate[i] = "called",
                            !.sent[i] = TaskMessage(orch.context, orch.plan[i])]
    /\ gathered' = <<>>
    /\ UNCHANGED <<workflow, fanin, calls, status, pending, shared, outputs, active,
                   execPhases, reviews, produced, prompt, obs, store>>

\* the worker returns; when it is the last of the step, gather returns and
\* the handler goes on
TaskReturn(i, response) ==
    /\ DynamicRunning
    /\ orch.running
    /\ orch.tstate[i] = "called"
    /\ LET o1 == [orch EXCEPT !.tstate[i] = "returned", !.tresp[i] = response,
                              !.done = Append(@, i)]
           stepDone == \A j \in 1..Len(o1.plan) :
                           o1.plan[j].step = o1.step => o1.tstate[j] = "returned"
           step_results == StepResultList(o1, o1.step)
           o2 == [o1 EXCEPT !.all_results =
                      DictSet(o1.all_results, o1.step, step_results)]
       IN  IF stepDone
           THEN /\ OrchProceed(o2, pending)
                /\ gathered' =
                      [tasks |-> [j \in 1..Len(StepTasks(o1.plan, o1.step, 1)) |->
                                     o1.plan[StepTasks(o1.plan, o1.step, 1)[j]]],
                       order |-> [j \in 1..Len(o1.done) |-> o1.plan[o1.done[j]]],
                       results |-> step_results]
           ELSE orch' = o1 /\ UNCHANGED <<pending, shared, gathered>>
    /\ produced' = Min(produced + 1, MaxProduced)
    /\ UNCHANGED <<workflow, fanin, calls, status, outputs, active, execPhases, reviews,
                   prompt, obs, store>>

\* the worker call raises: gather re-raises, the handler raises
TaskRaise(i) ==
    /\ DynamicRunning
    /\ orch.running
    /\ orch.tstate[i] = "called"
    /\ orch' = IdleOrch
    /\ Fail("orchestrator")
    /\ UNCHANGED prompt

-----------------------------------------------------------------------------
(* Review and retry *)

\* "await ctx.get_shared_state(key) or 0"
GetOr0(s, key) == IF key \in s.written THEN s[key] ELSE 0

\* variant: the retry counter has no cap
CanRetry_NoCap(decision, retry_count) == ~decision.is_complete

\* route_review: "if not decision.is_complete and retry_count < 1"
CanRetry(decision, retry_count) == ~decision.is_complete /\ retry_count < 1

\* the text of one result in a prompt; sep stands between "Response:" and
\* the response text
PromptPart(step_num, result, sep) ==
    <<"---\nStep ", ToString(step_num), " | Agent: ", result.agent,
      "\nQuestion: ", result.question, sep>> \o Str(result.response) \o <<"\n---">>

\* the parts of the results of the steps keys, in that order
RECURSIVE PromptParts(_, _, _)
PromptParts(results, keys, sep) ==
    IF keys = <<>> THEN <<>>
    ELSE [i \in 1..Len(results[Head(keys)]) |->
             PromptPart(Head(keys), results[Head(keys)][i], sep)]
         \o PromptParts(results, Tail(keys), sep)

\* ReviewExecutor._format_results
_format_results(results) ==
    LET parts == PromptParts(results, SortedKeys(DOMAIN results), "\nResponse:\n")
    IN  IF parts # <<>> THEN Join("\n", parts) ELSE <<"(No results)">>

\* ReviewModeTriageExecutor._format_execution_results
_format_execution_results(results) ==
    LET parts == PromptParts(results, SortedKeys(DOMAIN results), "\nResponse: ")
    IN  IF parts # <<>> THEN Join("\n", parts) ELSE <<"(No results)">>

\* variant: the instruction of the reached cap is left out
ReviewPrompt_NoCapLine(request, retry_count) ==
    <<"## Review Request\n\n## Original User Query\n", request.original_query,
      "\n\n## Execution Results\n">>
        \o _format_results(request.execution_results)
        \o <<"\n\n## Context\n- This is ",
             IF request.is_retry THEN "a retry attempt" ELSE "the first attempt",
             "\n- Retry count: ", ToString(retry_count),
             "\n- Maximum retries allowed: 1\n\n## Instructions\n">>
        \o (IF request.is_retry
            THEN <<"IMPORTANT: This is a retry. Accept the result unless there's a critical gap.">>
            ELSE <<>>)
        \o <<"\n">>

\* the prompt ReviewExecutor.review sends to the reviewer
ReviewPrompt(request, retry_count) ==
    <<"## Review Request\n\n## Original User Query\n", request.original_query,
      "\n\n## Execution Results\n">>
        \o _format_results(request.execution_results)
        \o <<"\n\n## Context\n- This is ",
             IF request.is_retry THEN "a retry attempt" ELSE "the first attempt",
             "\n- Retry count: ", ToString(retry_count),
             "\n- Maximum retries allowed: 1\n\n## Instructions\n">>
        \o (IF request.is_retry
            THEN <<"IMPORTANT: This is a retry. Accept the result unless there's a critical gap.">>
            ELSE <<>>)
        \o <<"\n">>
        \o (IF retry_count >= 1
            THEN <<"IMPORTANT: Maximum retries reached. Accept the result.">>
            ELSE <<>>)

\* variant: the decision does not carry the request's results
ReviewDecision_NoResults(output, request) ==
    [type |-> "ReviewDecision",
     is_complete |-> output.is_complete,
     summary |-> output.summary,
     execution_results |-> EmptyResults,
     original_query |-> request.original_query]

ReviewDecision(output, request) ==
    [type |-> "ReviewDecision",
     is_complete |-> output.is_complete,
     summary |-> output.summary,
     execution_results |-> request.execution_results,
     original_query |-> request.original_query]

\* ReviewExecutor.review, the reviewer returning a schema-valid output
Review ==
    /\ DynamicRunning
    /\ \E m \in Inbox("review_executor", "ReviewRequest") :
       \E output \in ReviewOutputs :
         /\ prompt' = ReviewPrompt(m.data, GetOr0(shared, "retry_count"))
         /\ pending' = (pending \ {m}) \cup
                Edge("route_review", ReviewDecision(output, m.data))
    /\ active' = "review_executor"
    /\ reviews' = Min(reviews + 1, MaxPhases)
    /\ gathered' = <<>>
    /\ UNCHANGED <<workflow, fanin, calls, status, shared, orch, outputs, execPhases,
                   produced, obs, store>>

\* ReviewOutput.model_validate_json raises
ReviewInvalid ==
    /\ DynamicRunning
    /\ \E m \in Inbox("review_executor", "ReviewRequest") :
         prompt' = ReviewPrompt(m.data, GetOr0(shared, "retry_count"))
    /\ Fail("review_executor")
    /\ UNCHANGED orch

route_review ==
    /\ DynamicRunning
    /\ \E m \in Inbox("route_review", "ReviewDecision") :
         LET decision == m.data
             retry_count == GetOr0(shared, "retry_count")
             s1 == set_shared_state(shared, "review_decision", decision)
             s2 == IF CanRetry(decision, retry_count)
                   THEN set_shared_state(
                            set_shared_state(s1, "retry_count", retry_count + 1),
                            "is_retry", TRUE)
                   ELSE s1
         IN  /\ shared' = s2
             /\ pending' = (pending \ {m}) \cup
                    Selected(select_review_outcome(decision, ReviewTargets), decision)
    /\ active' = "route_review"
    /\ UNCHANGED <<workflow, fanin, calls, status, orch, outputs, execPhases, reviews,
                   produced, gathered, prompt, obs, store>>

ReviewModeRequest(decision) ==
    [type |-> "ReviewModeRequest",
     review_feedback |-> decision,
     previous_results |-> decision.execution_results,
     original_query |-> decision.original_query]

\* both branches of "if retry_count > 1" send the same ReviewModeRequest
triage_review_bridge ==
    /\ DynamicRunning
    /\ \E m \in Inbox("triage_review_bridge", "ReviewDecision") :
         LET retry_count == GetOr0(shared, "retry_count")
         IN  pending' = (pending \ {m}) \cup
                 (IF retry_count > 1
                  THEN Edge("review_mode_triage", ReviewModeRequest(m.data))
                  ELSE Edge("review_mode_triage", ReviewModeRequest(m.data)))
    /\ active' = "triage_review_bridge"
    /\ UNCHANGED <<workflow, fanin, calls, status, shared, orch, outputs, execPhases,
                   reviews, produced, gathered, prompt, obs, store>>

TriageReviewResult(output) ==
    [type |-> "TriageReviewResult",
     accept_review |-> output.accept_review,
     new_plan |-> output.new_plan,
     rejection_reason |-> output.rejection_reason]

\* the plan's tasks grouped by step, shaped like a results dict
PlanGrouped(plan) ==
    [n \in PlanStepNums(plan) |->
        LET idx == StepTasks(plan, n, 1) IN [j \in 1..Len(idx) |-> plan[idx[j]]]]

\* the run stays within the modelled number of stored results
WithinBounds(previous_results, output) ==
    (output.accept_review /\ output.new_plan # <<>>)
        => NumResults(MergeResults(previous_results, PlanGrouped(output.new_plan)))
               <= MaxResults

\* ReviewModeTriageExecutor.handle, the planner returning a schema-valid output
ReviewModeTriage ==
    /\ DynamicRunning
    /\ \E m \in Inbox("review_mode_triage", "ReviewModeRequest") :
       \E output \in ReviewModeOutputs :
         /\ WithinBounds(m.data.previous_results, output)
         /\ pending' = (pending \ {m}) \cup
                Selected(select_triage_review_outcome(TriageReviewResult(output),
                                                      TriageReviewTargets),
                         TriageReviewResult(output))
    /\ active' = "review_mode_triage"
    /\ UNCHANGED <<workflow, fanin, calls, status, shared, orch, outputs, execPhases,
                   reviews, produced, gathered, prompt, obs, store>>

\* ReviewModeOutput.model_validate_json raises
ReviewModeTriageInvalid ==
    /\ DynamicRunning
    /\ Inbox("review_mode_triage", "ReviewModeRequest") # {}
    /\ Fail("review_mode_triage")
    /\ UNCHANGED <<orch, prompt>>

output_existing ==
    /\ DynamicRunning
    /\ \E m \in Inbox("output_existing", "TriageReviewResult") :
         LET execution_results == shared.execution_results
         IN  /\ outputs' = Append(outputs,
                    _format_final_output(execution_results, m.data.rejection_reason))
             /\ pending' = pending \ {m}
    /\ active' = "output_existing"
    /\ UNCHANGED <<workflow, fanin, calls, status, shared, orch, execPhases, reviews,
                   produced, gathered, prompt, obs, store>>

\* variant: the summary is ignored
AggregateText_AlwaysFormat(decision) ==
    _format_final_output(decision.execution_results, "")

\* the text FinalAggregator.aggregate yields
AggregateText(decision) ==
    IF decision.summary # "" THEN <<decision.summary>>
    ELSE _format_final_output(decision.execution_results, "")

\* FinalAggregator.aggregate
aggregate ==
    /\ DynamicRunning
    /\ \E m \in Inbox("final_aggregator", "ReviewDecision") :
         /\ outputs' = Append(outputs, AggregateText(m.data))
         /\ pending' = pending \ {m}
    /\ active' = "final_aggregator"
    /\ UNCHANGED <<workflow, fanin, calls, status, shared, orch, execPhases, reviews,
                   produced, gathered, prompt, obs, store>>

-----------------------------------------------------------------------------------------------------------------------------------------------------
(* Triage workflow: data *)

TriageQuestions == {"check", "logs"}

TaskAssignments == [question : TriageQuestions, agent : Agents]

TriageOutputs ==
    [should_reject : BOOLEAN, reject_reason : Reasons,
     tasks : UNION {[1..k -> TaskAssignments] : k \in 0..MaxPlanLen}]

\* the text of the triage agent: a TriageOutput as JSON, or text that is not
TriageTexts ==
    {[valid |-> FALSE, output |-> <<>>]}
    \cup {[valid |-> TRUE, output |-> o] : o \in TriageOutputs}

AgentTexts == {"", "answer"}

\* the fan-out targets, in the order add_fan_out_edges lists them
FilteredExecutors == <<"servicenow_executor", "log_analytics_executor",
                       "service_health_executor">>

\* FilteredAgentExecutor._agent_key
AgentKey(id) ==
    CASE id = "servicenow_executor" -> "servicenow"
      [] id = "log_analytics_executor" -> "log_analytics"
      [] id = "service_health_executor" -> "service_health"

DispatchTargets == <<"dispatch_to_agents", "reject_query">>

NoCalls == [e \in SeqRange(FilteredExecutors) |-> <<>>]

EmptyFanIn == [e \in SeqRange(FilteredExecutors) |-> <<>>]

\* variant: a result with no task and no rejection selects nothing
select_dispatch_or_reject_NoneOnEmpty(triage, target_ids) ==
    LET dispatch_id == target_ids[1]
        reject_id == target_ids[2]
    IN  IF triage.should_reject THEN <<reject_id>>
        ELSE IF triage.tasks = <<>> THEN <<>>
        ELSE <<dispatch_id>>

\* variant: the emptiness of the task list is not tested
select_dispatch_or_reject_IgnoreTasks(triage, target_ids) ==
    LET dispatch_id == target_ids[1]
        reject_id == target_ids[2]
    IN  IF triage.should_reject THEN <<reject_id>> ELSE <<dispatch_id>>

select_dispatch_or_reject(triage, target_ids) ==
    LET dispatch_id == target_ids[1]
        reject_id == target_ids[2]
    IN  IF triage.should_reject \/ triage.tasks = <<>>
        THEN <<reject_id>>
        ELSE <<dispatch_id>>

\* a handler of the triage workflow raised
TriageFail(id) ==
    /\ status' = "failed"
    /\ pending' = {}
    /\ calls' = NoCalls
    /\ fanin' = EmptyFanIn
    /\ active' = id
    /\ UNCHANGED <<workflow, shared, orch, outputs, execPhases, reviews, produced,
                   gathered, prompt, obs, store>>

-----------------------------------------------------------------------------
(* Triage workflow: executors *)

triage_store_query ==
    /\ TriageRunning
    /\ \E m \in Inbox("store_query", "WorkflowInput") :
         LET chat_messages == ChatMessages(m.data)
             latest_query == LatestUserText(chat_messages)
             s1 == set_shared_state(shared, "conversation_history", chat_messages)
             s2 == set_shared_state(s1, "original_query", latest_query)
         IN  /\ shared' = s2
             /\ pending' = (pending \ {m}) \cup
                    Edge("triage_agent",
                         [type |-> "AgentExecutorRequest",
                          messages |-> chat_messages])
    /\ active' = "store_query"
    /\ UNCHANGED <<workflow, fanin, calls, status, orch, outputs, execPhases, reviews,
                   produced, gathered, prompt, obs, store>>

\* AgentExecutor(triage, id="triage_agent"): runs the agent, sends its response
triage_agent ==
    /\ TriageRunning
    /\ \E m \in Inbox("triage_agent", "AgentExecutorRequest") :
       \E text \in TriageTexts :
         pending' = (pending \ {m}) \cup
             Edge("parse_triage_output",
                  [type |-> "AgentExecutorResponse", text |-> text])
    /\ active' = "triage_agent"
    /\ UNCHANGED <<workflow, fanin, calls, status, shared, orch, outputs,
                   execPhases, reviews, produced, gathered, prompt, obs, store>>

TriageResult(triage, original_query) ==
    [type |-> "TriageResult",
     should_reject |-> triage.should_reject,
     reject_reason |-> triage.reject_reason,
     tasks |-> triage.tasks,
     original_query |-> original_query]

parse_triage_output ==
    /\ TriageRunning
    /\ \E m \in Inbox("parse_triage_output", "AgentExecutorResponse") :
         /\ m.data.text.valid
         /\ LET triage == m.data.text.output
                original_query == shared.original_query
                result == TriageResult(triage, original_query)
            IN  /\ shared' = set_shared_state(shared, "tasks", triage.tasks)
                /\ pending' = (pending \ {m}) \cup
                       Selected(select_dispatch_or_reject(result, DispatchTargets),
                                result)
    /\ active' = "parse_triage_output"
    /\ UNCHANGED <<workflow, fanin, calls, status, orch, outputs, execPhases, reviews,
                   produced, gathered, prompt, obs, store>>

\* TriageOutput.model_validate_json raises
ParseTriageInvalid ==
    /\ TriageRunning
    /\ \E m \in Inbox("parse_triage_output", "AgentExecutorResponse") :
         ~m.data.text.valid
    /\ TriageFail("parse_triage_output")

triage_reject_query ==
    /\ TriageRunning
    /\ \E m \in Inbox("reject_query", "TriageResult") :
         /\ outputs' = Append(outputs, RejectText(m.data.reject_reason))
         /\ pending' = pending \ {m}
    /\ active' = "reject_query"
    /\ UNCHANGED <<workflow, fanin, calls, status, shared, orch, execPhases, reviews,
                   produced, gathered, prompt, obs, store>>

\* DispatchToAgents.dispatch; the fan-out edges broadcast what it sends
dispatch ==
    /\ TriageRunning
    /\ \E m \in Inbox("dispatch_to_agents", "TriageResult") :
         pending' = (pending \ {m}) \cup
             (IF ~m.data.should_reject /\ m.data.tasks # <<>>
              THEN {[to |-> e, data |-> m.data] : e \in SeqRange(FilteredExecutors)}
              ELSE {})
    /\ active' = "dispatch_to_agents"
    /\ UNCHANGED <<workflow, fanin, calls, status, shared, orch, outputs,
                   execPhases, reviews, produced, gathered, prompt, obs, store>>

\* variant: the questions of every task, whatever its agent
QuestionsFor_AnyAgent(tasks, agent_key) ==
    [i \in 1..Len(tasks) |-> tasks[i].question]

\* [task.question for task in triage.tasks if task.agent == self._agent_key]
RECURSIVE QuestionsFor(_, _)
QuestionsFor(tasks, agent_key) ==
    IF tasks = <<>> THEN <<>>
    ELSE (IF Head(tasks).agent = agent_key THEN <<Head(tasks).question>> ELSE <<>>)
             \o QuestionsFor(Tail(tasks), agent_key)

Combined(questions) ==
    IF Len(questions) > 1
    THEN Join("\n", [i \in 1..Len(questions) |-> <<"- ", questions[i]>>])
    ELSE <<questions[1]>>

AgentResponse(executor_id, text) ==
    [type |-> "AgentResponse", executor_id |-> executor_id, text |-> text]

\* variant: the first response is delivered without waiting for the others
FanIn_FirstResponse(e, response, rest) ==
    /\ pending' = rest \cup Edge("aggregate_responses",
                                 [type |-> "list", results |-> <<response>>])
    /\ fanin' = fanin

\* the fan-in edge group: buffer the response of its source; once every
\* source has one, deliver the list to the aggregator
FanIn(e, response, rest) ==
    LET buffer == [fanin EXCEPT ![e] = Append(@, response)]
    IN  IF \A x \in SeqRange(FilteredExecutors) : buffer[x] # <<>>
        THEN /\ pending' = rest \cup
                    Edge("aggregate_responses",
                         [type |-> "list",
                          results |-> [i \in 1..Len(FilteredExecutors) |->
                                          Head(buffer[FilteredExecutors[i]])]])
             /\ fanin' = [x \in SeqRange(FilteredExecutors) |-> Tail(buffer[x])]
        ELSE /\ pending' = rest
             /\ fanin' = buffer

\* FilteredAgentExecutor.handle up to "await self._agent.run", or to its end
\* when no task is assigned to the executor's agent
FilteredHandle(e) ==
    /\ TriageRunning
    /\ \E m \in Inbox(e, "TriageResult") :
         LET questions == QuestionsFor(m.data.tasks, AgentKey(e))
         IN  IF questions = <<>>
             THEN /\ FanIn(e, AgentResponse(e, ""), pending \ {m})
                  /\ UNCHANGED calls
             ELSE /\ calls' = [calls EXCEPT ![e] = <<Combined(questions)>>]
                  /\ pending' = pending \ {m}
                  /\ UNCHANGED fanin
    /\ active' = e
    /\ UNCHANGED <<workflow, status, shared, orch, outputs, execPhases, reviews,
                   produced, gathered, prompt, obs, store>>

\* the agent returns: the rest of FilteredAgentExecutor.handle
FilteredReturn(e, text) ==
    /\ TriageRunning
    /\ calls[e] # <<>>
    /\ calls' = [calls EXCEPT ![e] = <<>>]
    /\ FanIn(e, AgentResponse(e, text), pending)
    /\ UNCHANGED <<workflow, status, shared, orch, outputs, active,
                   execPhases, reviews, produced, gathered, prompt, obs, store>>

\* the agent call raises
FilteredRaise(e) ==
    /\ TriageRunning
    /\ calls[e] # <<>>
    /\ TriageFail(e)

\* r.executor_id.replace("_executor", "").replace("_", " ").title()
ExecutorTitle(executor_id) == AgentTitle(AgentKey(executor_id))

RECURSIVE ResponseSections(_)
ResponseSections(results) ==
    IF results = <<>> THEN <<>>
    ELSE (IF Head(results).text # ""
          THEN << <<"## ", ExecutorTitle(Head(results).executor_id), "\n",
                    Head(results).text>> >>
          ELSE <<>>)
             \o ResponseSections(Tail(results))

\* AggregateResponses.aggregate
aggregate_responses ==
    /\ TriageRunning
    /\ \E m \in Inbox("aggregate_responses", "list") :
         /\ outputs' = Append(outputs,
                              Join("\n\n---\n\n", ResponseSections(m.data.results)))
         /\ pending' = pending \ {m}
    /\ active' = "aggregate_responses"
    /\ UNCHANGED <<workflow, fanin, calls, status, shared, orch, execPhases, reviews,
                   produced, gathered, prompt, obs, store>>

\* ChatHistoryManager in redis mode with nothing stored; rows and zset hold [id, last_modified]
StoreIdle ==
    [available |-> TRUE, rows |-> {}, zset |-> {}, op |-> "", cid |-> "",
     hit |-> FALSE, listed |-> {}]

-----------------------------------------------------------------------------
(* Progress notifications: flask_app.py and opsagent/observability.py *)

\* conversations with a message request each
Convs == {"c1", "c2"}

\* None, where a stream is expected
NoStream == "None"

\* the None sentinel EventStream.stop puts on the queue
Sentinel == [run |-> "None", text |-> "None"]

\* the module a middleware is imported from: triage_agent and
\* servicenow_agent take it from opsagent.observability, whose global
\* flask_app sets; the other agents take it from opsagent.utils.observability,
\* whose global nothing sets
Modules == {"observability", "utils.observability"}

MiddlewareKinds == {"agent", "function"}

\* a stream is named by the conversation whose SSE connection created it
ObsIdle ==
    [current |-> NoStream,
     registered |-> {},
     streams |-> [c \in Convs |-> [exists |-> FALSE, started |-> FALSE,
                                   active |-> FALSE, queue |-> <<>>]],
     hist |-> [c \in Convs |-> [phase |-> "new", log |-> <<>>]],
     delivered |-> [c \in Convs |-> <<>>],
     req |-> [c \in Convs |->
                 [pc |-> "idle", stream |-> NoStream, mw |-> NoStream,
                  kind |-> "agent", calls |-> 0, nexts |-> 0]]]

\* variant: the stream accepts events whether active or not
emit_IgnoreActive(o, stream, message) ==
    [o EXCEPT !.streams[stream].queue = Append(@, message)]

\* EventStream.emit
emit(o, stream, message) ==
    IF o.streams[stream].active
    THEN [o EXCEPT !.streams[stream].queue = Append(@, message)]
    ELSE o

\* EventStream.start
start(o, stream) ==
    [o EXCEPT !.streams[stream].active = TRUE,
              !.streams[stream].started = TRUE,
              !.streams[stream].queue = <<>>]

\* EventStream.stop
stop(o, stream) ==
    [o EXCEPT !.streams[stream].active = FALSE,
              !.streams[stream].queue = Append(@, Sentinel)]

\* history: the calls of emit on a stream between its start and the next
\* stop, in call order
LogEmit(o, stream, message) ==
    IF stream # NoStream /\ o.hist[stream].phase = "started"
    THEN [o EXCEPT !.hist[stream].log = Append(@, message)]
    ELSE o

\* history: start and stop were called on the stream
LogPhase(o, stream, phase) ==
    IF stream # NoStream THEN [o EXCEPT !.hist[stream].phase = phase] ELSE o

\* get_current_stream() of the module the middleware lives in
get_current_stream(o, module) ==
    IF module = "observability" THEN o.current ELSE NoStream

\* the event text of a middleware, tagged with the run whose agent emits it
Event(c, kind, phase) ==
    [run |-> c,
     text |-> CASE kind = "agent" /\ phase = "before" -> "agent invoked"
                [] kind = "agent" /\ phase = "after" -> "agent finished"
                [] kind = "function" /\ phase = "before" -> "Calling"
                [] kind = "function" /\ phase = "after" -> "finished"]

\* "if stream: stream.emit(...)"
EmitIfStream(o, stream, message) ==
    IF stream # NoStream THEN emit(o, stream, message) ELSE o

\* the workflow variables, which the requests of this part leave alone
wfvars == <<workflow, status, pending, shared, orch, outputs, fanin, calls, active,
            execPhases, reviews, produced, gathered, prompt>>

\* api_thinking_stream.generate: EventStream() and its entry in
\* _active_streams
Connect(c) ==
    /\ ~obs.streams[c].exists
    /\ obs' = [obs EXCEPT !.streams[c] = [exists |-> TRUE, started |-> FALSE,
                                          active |-> FALSE, queue |-> <<>>],
                          !.registered = @ \cup {c}]
    /\ UNCHANGED <<wfvars, store>>

\* generate goes on: stream.start(), up to the first yield
StartStream(c) ==
    /\ obs.streams[c].exists
    /\ ~obs.streams[c].started
    /\ obs' = LogPhase(start(obs, c), c, "started")
    /\ UNCHANGED <<wfvars, store>>

\* one turn of iter_events in generate: an event goes to the client, the
\* sentinel ends the generator, whose finally unregisters the stream
Consume(c) ==
    /\ obs.streams[c].started
    /\ obs.streams[c].queue # <<>>
    /\ LET event == Head(obs.streams[c].queue)
           o1 == [obs EXCEPT !.streams[c].queue = Tail(@)]
       IN  obs' = IF event = Sentinel
                  THEN [o1 EXCEPT !.registered = @ \ {c}]
                  ELSE [o1 EXCEPT !.delivered[c] = Append(@, event)]
    /\ UNCHANGED <<wfvars, store>>

\* api_send_message up to call_llm: look the stream up, make it current
SendMessage(c) ==
    /\ obs.req[c].pc = "idle"
    /\ LET stream == IF c \in obs.registered THEN c ELSE NoStream
       IN  obs' = [obs EXCEPT !.current = stream,
                             !.req[c].stream = stream,
                             !.req[c].pc = "workflow"]
    /\ UNCHANGED <<wfvars, store>>

\* the middleware calls made so far, of all requests
RECURSIVE SumCalls(_, _)
SumCalls(o, cs) ==
    IF cs = {} THEN 0
    ELSE LET c == CHOOSE x \in cs : TRUE
         IN  o.req[c].calls + (IF o.req[c].pc \in {"invoked", "returned"} THEN 1 ELSE 0)
                 + SumCalls(o, cs \ {c})

AgentCalls(o) == SumCalls(o, Convs)

\* a middleware up to "await next(context)"
MiddlewareEnter(c, kind, module) ==
    /\ obs.req[c].pc = "workflow"
    /\ AgentCalls(obs) < MaxAgentCalls
    /\ LET stream == get_current_stream(obs, module)
           o1 == EmitIfStream(LogEmit(obs, stream, Event(c, kind, "before")),
                              stream, Event(c, kind, "before"))
       IN  obs' = [o1 EXCEPT !.req[c].mw = stream,
                            !.req[c].kind = kind,
                            !.req[c].pc = "invoked"]
    /\ UNCHANGED <<wfvars, store>>

\* "await next(context)": the wrapped agent or tool runs
MiddlewareNext(c) ==
    /\ obs.req[c].pc = "invoked"
    /\ obs' = [obs EXCEPT !.req[c].nexts = @ + 1, !.req[c].pc = "returned"]
    /\ UNCHANGED <<wfvars, store>>

\* the middleware after next returned
MiddlewareExit(c) ==
    /\ obs.req[c].pc = "returned"
    /\ LET o1 == EmitIfStream(LogEmit(obs, obs.req[c].mw,
                                      Event(c, obs.req[c].kind, "after")),
                              obs.req[c].mw, Event(c, obs.req[c].kind, "after"))
       IN  obs' = [o1 EXCEPT !.req[c].calls = @ + 1, !.req[c].pc = "workflow"]
    /\ UNCHANGED <<wfvars, store>>

\* call_llm returned; the finally of api_send_message
FinishMessage(c) ==
    /\ obs.req[c].pc = "workflow"
    /\ LET o1 == IF obs.req[c].stream # NoStream
                 THEN LogPhase(stop(obs, obs.req[c].stream), obs.req[c].stream,
                               "stopped")
                 ELSE obs
       IN  obs' = [o1 EXCEPT !.current = NoStream, !.req[c].pc = "done"]
    /\ UNCHANGED <<wfvars, store>>

ObsInit ==
    /\ workflow = "triage"
    /\ status = "running"
    /\ pending = {}
    /\ shared = InitShared
    /\ orch = IdleOrch
    /\ outputs = <<>>
    /\ fanin = EmptyFanIn
    /\ calls = NoCalls
    /\ active = ""
    /\ execPhases = 0
    /\ reviews = 0
    /\ produced = 0
    /\ gathered = <<>>
    /\ prompt = <<>>
    /\ obs = ObsIdle
    /\ store = StoreIdle

ObsNext ==
    \/ \E c \in Convs : Connect(c)
    \/ \E c \in Convs : StartStream(c)
    \/ \E c \in Convs : Consume(c)
    \/ \E c \in Convs : SendMessage(c)
    \/ \E c \in Convs : \E kind \in MiddlewareKinds : \E module \in Modules :
          MiddlewareEnter(c, kind, module)
    \/ \E c \in Convs : MiddlewareNext(c)
    \/ \E c \in Convs : MiddlewareExit(c)
    \/ \E c \in Convs : FinishMessage(c)

ObsSpec == ObsInit /\ [][ObsNext]_vars

-----------------------------------------------------------------------------
(* Chat history storage in redis mode: opsagent/ui/app/storage *)

\* conversation ids of one user
StoreConvs == {"k1", "k2", "k3"}

\* the conversations created before the cutoff of the history window
OutOfWindow == {"k3"}

\* a conversation is saved at most this many times
MaxSaves == 2

\* a row or a cached metadata entry
Meta(cid, last_modified) == [id |-> cid, last_modified |-> last_modified]

\* "created_at >= cutoff", of the SQL query and of get_conversations_list
InWindow(entries) == {e \in entries : e.id \notin OutOfWindow}

\* PostgreSQLBackend.list_conversations
PgList(rows) == InWindow(rows)

\* PostgreSQLBackend.save_conversation: upsert
PgSave(rows, cid, last_modified) ==
    {r \in rows : r.id # cid} \cup {Meta(cid, last_modified)}

\* PostgreSQLBackend.delete_conversation
PgDelete(rows, cid) == {r \in rows : r.id # cid}

\* the first entry of zrevrange (highest score first) with the id, as a set
FirstMatch(zset, cid) ==
    {e \in zset : /\ e.id = cid
                  /\ \A f \in zset : f.id = cid => f.last_modified <= e.last_modified}

\* RedisBackend.update_conversation_metadata: zrem the first match, zadd
update_conversation_metadata(zset, cid, last_modified) ==
    (zset \ FirstMatch(zset, cid)) \cup {Meta(cid, last_modified)}

\* RedisBackend.delete_conversation_cache, for the conversations key
delete_conversation_cache(zset, cid) == zset \ FirstMatch(zset, cid)

\* RedisBackend.set_conversations_list: zadd every listed conversation
set_conversations_list(zset, conversations) == zset \cup conversations

\* the times a conversation has been saved
Saves(cid) ==
    IF \E r \in store.rows : r.id = cid
    THEN (CHOOSE r \in store.rows : r.id = cid).last_modified
    ELSE 0

\* ChatHistoryManager.save_conversation, redis mode
save_conversation(cid) ==
    /\ Saves(cid) < MaxSaves
    /\ LET last_modified == Saves(cid) + 1
       IN  store' = [store EXCEPT
                        !.rows = PgSave(@, cid, last_modified),
                        !.zset = IF store.available
                                 THEN update_conversation_metadata(@, cid, last_modified)
                                 ELSE @,
                        !.op = "save", !.cid = cid]
    /\ UNCHANGED <<wfvars, obs>>

\* ChatHistoryManager.delete_conversation, redis mode
delete_conversation(cid) ==
    /\ store' = [store EXCEPT
                    !.rows = PgDelete(@, cid),
                    !.zset = IF store.available
                             THEN delete_conversation_cache(@, cid) ELSE @,
                    !.op = "delete", !.cid = cid]
    /\ UNCHANGED <<wfvars, obs>>

\* ChatHistoryManager.list_conversations, redis mode: the cached list when
\* the key holds anything, else the PostgreSQL list, which is then cached
list_conversations ==
    /\ LET hit == store.available /\ store.zset # {}
           conversations == PgList(store.rows)
       IN  store' = [store EXCEPT
                        !.listed = IF hit THEN {e.id : e \in InWindow(store.zset)}
                                   ELSE {e.id : e \in conversations},
                        !.zset = IF hit \/ ~store.available THEN @
                                 ELSE set_conversations_list(@, conversations),
                        !.hit = hit,
                        !.op = "list", !.cid = ""]
    /\ UNCHANGED <<wfvars, obs>>

\* the conversations key reaches its TTL
Expire ==
    /\ store.zset # {}
    /\ store' = [store EXCEPT !.zset = {}, !.op = "expire", !.cid = ""]
    /\ UNCHANGED <<wfvars, obs>>

StoreInit ==
    /\ workflow = "triage"
    /\ status = "running"
    /\ pending = {}
    /\ shared = InitShared
    /\ orch = IdleOrch
    /\ outputs = <<>>
    /\ fanin = EmptyFanIn
    /\ calls = NoCalls
    /\ active = ""
    /\ execPhases = 0
    /\ reviews = 0
    /\ produced = 0
    /\ gathered = <<>>
    /\ prompt = <<>>
    /\ obs = ObsIdle
    /\ store \in {[StoreIdle EXCEPT !.available = a] : a \in BOOLEAN}

StoreNext ==
    \/ \E cid \in StoreConvs : save_conversation(cid)
    \/ \E cid \in StoreConvs : delete_conversation(cid)
    \/ list_conversations
    \/ Expire

StoreSpec == StoreInit /\ [][StoreNext]_vars

-----------------------------------------------------------------------------
(* A run of either workflow on one input *)

Init ==
    /\ workflow \in {"dynamic", "triage"}
    /\ status = "running"
    /\ \E input \in WorkflowInputs :
         pending = Edge("store_query",
                        [type |-> "WorkflowInput", query |-> input.query,
                         messages |-> input.messages])
    /\ shared = InitShared
    /\ orch = IdleOrch
    /\ outputs = <<>>
    /\ fanin = EmptyFanIn
    /\ calls = NoCalls
    /\ active = ""
    /\ execPhases = 0
    /\ reviews = 0
    /\ produced = 0
    /\ gathered = <<>>
    /\ prompt = <<>>
    /\ obs = ObsIdle
    /\ store = StoreIdle

DynamicNext ==
    \/ store_query
    \/ UserModeTriage
    \/ UserModeTriageInvalid
    \/ route_user_triage
    \/ reject_query
    \/ Clarify
    \/ ClarifyInvalid
    \/ execute_plan
    \/ execute_new_plan
    \/ \E i \in 1..Len(orch.plan) : TaskStart(i)
    \/ \E i \in 1..Len(orch.plan) : \E response \in Responses : TaskReturn(i, response)
    \/ \E i \in 1..Len(orch.plan) : TaskRaise(i)
    \/ Review
    \/ ReviewInvalid
    \/ route_review
    \/ triage_review_bridge
    \/ ReviewModeTriage
    \/ ReviewModeTriageInvalid
    \/ output_existing
    \/ aggregate

TriageNext ==
    \/ triage_store_query
    \/ triage_agent
    \/ parse_triage_output
    \/ ParseTriageInvalid
    \/ triage_reject_query
    \/ dispatch
    \/ \E e \in SeqRange(FilteredExecutors) : FilteredHandle(e)
    \/ \E e \in SeqRange(FilteredExecutors) : \E text \in AgentTexts : FilteredReturn(e, text)
    \/ \E e \in SeqRange(FilteredExecutors) : FilteredRaise(e)
    \/ aggregate_responses

Next == DynamicNext \/ TriageNext

Spec == Init /\ [][Next]_vars

TypeOK ==
    /\ status \in {"running", "failed"}
    /\ execPhases \in 0..MaxPhases
    /\ reviews \in 0..MaxPhases
    /\ produced \in 0..MaxProduced
    /\ workflow = "dynamic" => Cardinality(pending) <= 1

\* a run of the dynamic workflow in which the engine delivers every message
\* in flight and every collaborator call returns or raises
DynamicInit ==
    /\ Init
    /\ workflow = "dynamic"
    /\ \A m \in pending : m.data.messages = <<>>

FairSpec == DynamicInit /\ [][DynamicNext]_vars /\ WF_vars(DynamicNext)

-----------------------------------------------------------------------------
(* Properties of the retry loop *)

Dynamic == workflow = "dynamic"

Yielded == outputs # <<>>

\* the route_review handler runs in this step on decision d
RouteReviewStep(d) ==
    /\ [to |-> "route_review", data |-> d] \in pending
    /\ [to |-> "route_review", data |-> d] \notin pending'

\* C1: the shared-state retry_count is 0 or 1 in every reachable state of a
\* run of the dynamic workflow, and store_query writes it as 0
C1_RetryCountZeroOrOne ==
    Dynamic =>
        /\ shared.retry_count \in {0, 1}
        /\ (active = "store_query" =>
                "retry_count" \in shared.written /\ shared.retry_count = 0)

\* a second incomplete review has been routed and the counter stayed at 1
C1_Witness ==
    /\ Dynamic
    /\ reviews >= 2
    /\ active = "route_review"
    /\ \E m \in pending : m.to = "triage_review_bridge"
    /\ shared.retry_count = 1

\* C2: the Execute phase of the orchestrator runs at most twice in a run
C2_AtMostTwoExecutePhases == Dynamic => execPhases <= 2

\* C3: an incomplete ReviewDecision routed while retry_count >= 1 goes to a
\* terminal executor only, never to the retry planner
C3_SecondIncompleteIsTerminal ==
    [][\A m \in Inbox("route_review", "ReviewDecision") :
          (/\ RouteReviewStep(m.data)
           /\ ~m.data.is_complete
           /\ shared.retry_count >= 1)
          => \A r \in pending' : r.to \in {"final_aggregator", "output_existing"}]_vars

\* C4: a run of the dynamic workflow whose collaborator calls all return
\* schema-valid values eventually yields an output at a terminal executor
C4_EventuallyYields == Dynamic => <>(status = "failed" \/ Yielded)

\* C5: a run yields at most one output, and once it has yielded no message
\* is in flight, no worker or agent call is outstanding and nothing is
\* buffered at the fan-in, and no handler can run any more
C5_SingleOutputThenQuiet ==
    /\ Len(outputs) <= 1
    /\ Yielded =>
          /\ pending = {}
          /\ ~orch.running
          /\ calls = NoCalls
          /\ fanin = EmptyFanIn
          /\ active \in {"reject_query", "clarify_executor", "final_aggregator",
                         "output_existing", "aggregate_responses"}
          /\ ~ENABLED Next

\* the triage aggregator has yielded after the three fan-out branches
C5_Witness ==
    /\ workflow = "triage"
    /\ active = "aggregate_responses"
    /\ Len(outputs) = 1
    /\ pending = {}

\* the target the routing rule of user-mode planning names
UserTriageTarget(triage) ==
    IF triage.should_reject /\ triage.clarify THEN "clarify_executor"
    ELSE IF triage.should_reject THEN "reject_query"
    ELSE "orchestrator"

\* C6: route_user_triage routes its message to exactly one target: Clarify
\* iff should_reject and clarify, Reject iff should_reject and not clarify,
\* the orchestrator iff not should_reject
C6_UserTriageRouting ==
    [][\A m \in Inbox("route_user_triage", "TriageUserResult") :
          m \notin pending'
          => pending' = {[to |-> UserTriageTarget(m.data), data |-> m.data]}]_vars

\* an accepted query with clarify set and an empty plan is at the orchestrator
C6_Witness ==
    \E m \in Inbox("orchestrator", "TriageUserResult") :
        /\ ~m.data.should_reject
        /\ m.data.clarify
        /\ m.data.plan = <<>>

\* C7: a complete decision is routed to the final aggregator only and leaves
\* the retry state alone; an incomplete one with retry_count < 1 takes
\* retry_count from 0 to 1, sets is_retry and is routed to
\* triage_review_bridge only, which passes it to review_mode_triage only
C7_ReviewRouting ==
    [][/\ \A m \in Inbox("route_review", "ReviewDecision") :
            RouteReviewStep(m.data) =>
              /\ m.data.is_complete =>
                    /\ pending' = {[to |-> "final_aggregator", data |-> m.data]}
                    /\ shared'.retry_count = shared.retry_count
                    /\ shared'.is_retry = shared.is_retry
              /\ (~m.data.is_complete /\ shared.retry_count < 1) =>
                    /\ shared.retry_count = 0
                    /\ shared'.retry_count = 1
                    /\ shared'.is_retry
                    /\ pending' = {[to |-> "triage_review_bridge", data |-> m.data]}
       /\ \A m \in Inbox("triage_review_bridge", "ReviewDecision") :
            m \notin pending' =>
              /\ Cardinality(pending') = 1
              /\ \A r \in pending' :
                    /\ r.to = "review_mode_triage"
                    /\ r.data.type = "ReviewModeRequest"
                    /\ r.data.review_feedback = m.data]_vars

\* the first incomplete review has reached the retry planner
C7_Witness ==
    /\ Dynamic
    /\ active = "triage_review_bridge"
    /\ reviews = 1
    /\ shared.retry_count = 1
    /\ shared.is_retry
    /\ \E m \in pending : m.to = "review_mode_triage"

\* C8: the retry planner's result is routed to the orchestrator iff
\* accept_review holds and new_plan is non-empty, to output_existing in
\* every other case, and never to both
C8_RetryPlanRouting ==
    [][\A m \in Inbox("review_mode_triage", "ReviewModeRequest") :
          (m \notin pending' /\ status' = "running") =>
             /\ Cardinality(pending') = 1
             /\ \A r \in pending' :
                   /\ r.data.type = "TriageReviewResult"
                   /\ r.to = IF r.data.accept_review /\ Len(r.data.new_plan) > 0
                             THEN "orchestrator"
                             ELSE "output_existing"]_vars

\* an accepted review with an empty new plan is at output_existing
C8_Witness ==
    \E m \in Inbox("output_existing", "TriageReviewResult") :
        m.data.accept_review /\ m.data.new_plan = <<>>

\* an orchestrator handler returns in this step
ExecuteEnds ==
    /\ status' = "running"
    /\ ~orch'.running
    /\ \/ orch.running
       \/ \E m \in pending : m.to = "orchestrator" /\ m \notin pending'

\* C9: when an Execute phase ends, exactly one ReviewRequest carrying its
\* results is in flight to the reviewer and nothing else; the next step of
\* the run is the reviewer's activation, which consumes it; and no step of
\* the orchestrator yields an output
C9_ExecuteThenReview ==
    [][/\ ExecuteEnds =>
            /\ Cardinality(pending') = 1
            /\ \A r \in pending' :
                  /\ r.to = "review_executor"
                  /\ r.data.type = "ReviewRequest"
                  /\ r.data.execution_results = shared'.execution_results
       /\ Inbox("review_executor", "ReviewRequest") # {} =>
            /\ active' = "review_executor"
            /\ Inbox("review_executor", "ReviewRequest")' = {}
       /\ (active' = "orchestrator" \/ orch.running) => outputs' = outputs]_vars

\* the Execute phase of an empty plan has ended and its review is in flight
C9_Witness ==
    /\ active = "orchestrator"
    /\ \E m \in Inbox("review_executor", "ReviewRequest") :
          /\ m.data.execution_results = EmptyResults
          /\ ~m.data.is_retry

\* C10: while a plan runs, a task whose worker call has been issued has no
\* task with a smaller step number whose call has not completed
C10_StepBarrier ==
    orch.running =>
        \A i, j \in 1..Len(orch.plan) :
            (/\ orch.tstate[i] \in {"called", "returned"}
             /\ orch.plan[j].step < orch.plan[i].step)
            => orch.tstate[j] = "returned"

\* a plan listed out of order with a gap: step 2 is in flight after step 0
C10_Witness ==
    /\ orch.running
    /\ Len(orch.plan) = 2
    /\ orch.plan[1].step = 2
    /\ orch.plan[2].step = 0
    /\ orch.tstate[1] = "called"
    /\ orch.tstate[2] = "returned"

-----------------------------------------------------------------------------
(* Properties of the Execute phase *)

\* the tasks of the step the orchestrator is running
StepMates(i) == {j \in 1..Len(orch.plan) : orch.plan[j].step = orch.plan[i].step}

\* C11: the tasks of a step run concurrently: all coroutines of the step
\* exist before the gather waits (none is left waiting), a call that is not
\* yet issued belongs to the current step, and while calls remain to be
\* issued one of them can be issued whatever the state of the calls already
\* in flight, so that no call waits for a step mate to complete
C11_StepTasksConcurrent ==
    orch.running =>
        /\ status = "running"
        /\ \A i \in 1..Len(orch.plan) :
              /\ orch.plan[i].step = orch.step => orch.tstate[i] # "waiting"
              /\ orch.tstate[i] = "created" =>
                    /\ orch.plan[i].step = orch.step
                    /\ \E k \in StepMates(i) :
                          orch.tstate[k] = "created" /\ CanStart(orch, k)

\* two tasks of one step were in flight together and the one submitted
\* later has returned first
C11_Witness ==
    /\ orch.running
    /\ \E i, j \in 1..Len(orch.plan) :
          /\ i < j
          /\ orch.plan[i].step = orch.plan[j].step
          /\ orch.tstate[i] = "called"
          /\ orch.tstate[j] = "returned"

\* text holds block as a contiguous run of tokens
HasBlock(text, block) ==
    \E k \in 1..(Len(text) - Len(block) + 1) :
        SubSeq(text, k, k + Len(block) - 1) = block

\* the formatted block of the result of task j: agent, question, response
ResultBlock(j) ==
    <<"---\nAgent: ", orch.plan[j].agent, "\nQuestion: ", orch.plan[j].question,
      "\nResponse: ">> \o Str(orch.tresp[j]) \o <<"\n---">>

\* number of positions of text holding token
CountToken(text, token) == Cardinality({k \in 1..Len(text) : text[k] = token})

\* C12: in an initial Execute phase the message sent for a task of step n is
\* the task's question alone when the plan has no step n-1, and otherwise
\* the context block holding one formatted block per result of step n-1 and
\* nothing else, followed by the task's question
C12_ContextThreading ==
    (orch.running /\ ~orch.retry) =>
        \A i \in 1..Len(orch.plan) :
            orch.tstate[i] \in {"called", "returned"} =>
                LET prev == {j \in 1..Len(orch.plan) :
                                orch.plan[j].step = orch.plan[i].step - 1}
                    message == orch.sent[i]
                IN  IF prev = {}
                    THEN message = <<orch.plan[i].question>>
                    ELSE /\ message[1] = "Previous step results:\n"
                         /\ \A j \in prev : HasBlock(message, ResultBlock(j))
                         /\ CountToken(message, "---\nAgent: ") = Cardinality(prev)
                         /\ SubSeq(message, Len(message) - 1, Len(message))
                                = <<"\n\nYour task: ", orch.plan[i].question>>

\* a step-2 task of an initial plan was sent the result of the step-1 task
C12_Witness ==
    /\ orch.running
    /\ ~orch.retry
    /\ Len(orch.plan) = 2
    /\ orch.plan[1].step = 1
    /\ orch.plan[2].step = 2
    /\ orch.tstate[2] = "called"
    /\ HasBlock(orch.sent[2], ResultBlock(1))

\* the execute_new_plan handler returns in this step
RetryEnds == orch.running /\ orch.retry /\ ~orch'.running /\ status' = "running"

\* C13: when a retry phase ends, the stored results hold every previous key
\* with its result list unchanged, the results of new-plan step s are under
\* key max(previous keys) + s, and every retry key is above every previous key
C13_RetryRenumbering ==
    [][RetryEnds =>
          LET previous == orch.existing
              merged == shared'.execution_results
              max_step == IF DOMAIN previous = {} THEN 0 ELSE MaxKey(previous)
          IN  /\ \A k \in DOMAIN previous :
                    k \in DOMAIN merged /\ merged[k] = previous[k]
              /\ \A s \in PlanStepNums(orch.plan) :
                    /\ max_step + s \in DOMAIN merged
                    /\ Len(merged[max_step + s]) = Len(StepTasks(orch.plan, s, 1))
                    /\ \A k \in DOMAIN previous : max_step + s > k]_vars

\* C14: a worker call that fails does not fail the run: while a plan runs,
\* every step of the run leaves it running, a failed call becoming a result
\* of its task so that the step's join completes and Review follows
C14_WorkerFailureIsolated ==
    [][orch.running => (status' = "running" /\ (orch'.running \/ pending' # {}))]_vars

-----------------------------------------------------------------------------
(* Properties of failure and of the terminal executors *)

\* C15: a run in which a handler raised has failed for good: it has yielded
\* no output, holds no message in flight and no outstanding call, and no
\* executor can run any more, so nothing is yielded afterwards
C15_FailedRunYieldsNothing ==
    status = "failed" =>
        /\ outputs = <<>>
        /\ pending = {}
        /\ ~orch.running
        /\ calls = NoCalls
        /\ ~ENABLED Next

\* the retry planner's text failed validation after results had been stored
C15_Witness ==
    /\ status = "failed"
    /\ active = "review_mode_triage"
    /\ DOMAIN shared.execution_results # {}
    /\ outputs = <<>>

\* the section of one result: a heading naming its agent, then its response
Section(result) ==
    <<"## ", AgentTitle(result.agent), "\n">> \o Str(result.response)

\* the sections of the results in ascending step order, with a rule between
\* two sections
RECURSIVE SectionsText(_)
SectionsText(rs) ==
    IF rs = <<>> THEN <<>>
    ELSE IF Len(rs) = 1 THEN Section(rs[1])
    ELSE Section(rs[1]) \o <<"\n\n---\n\n">> \o SectionsText(Tail(rs))

\* C16: the final aggregator yields exactly the decision's summary when it is
\* non-empty, and otherwise the sections of the decision's execution results
C16_AggregatorOutput ==
    [][\A m \in Inbox("final_aggregator", "ReviewDecision") :
          m \notin pending' =>
             /\ Len(outputs') = Len(outputs) + 1
             /\ outputs'[Len(outputs')] =
                    IF m.data.summary # "" THEN <<m.data.summary>>
                    ELSE SectionsText(ResultsInOrder(m.data.execution_results))]_vars

\* a one-step plan reviewed complete with summary "done" has yielded "done"
C16_Witness ==
    /\ active = "final_aggregator"
    /\ outputs = << <<"done">> >>
    /\ Len(shared.current_plan) = 1
    /\ reviews = 1
    /\ NumResults(shared.execution_results) = 1

\* C17: a planner result with should_reject and without clarify is routed to
\* reject_query only, which yields the fixed rejection template around
\* reject_reason as the run's only output and sends nothing; no Execute
\* phase, review or retry planning has run and no result has been stored
C17_RejectOutput ==
    [][/\ \A m \in Inbox("route_user_triage", "TriageUserResult") :
            (m \notin pending' /\ m.data.should_reject /\ ~m.data.clarify) =>
                pending' = {[to |-> "reject_query", data |-> m.data]}
       /\ \A m \in Inbox("reject_query", "TriageUserResult") :
            m \notin pending' =>
              /\ m.data.should_reject /\ ~m.data.clarify
              /\ outputs' =
                    << <<"I don't have knowledge about that topic. ">>
                          \o (IF m.data.reject_reason = "" THEN <<>>
                              ELSE <<m.data.reject_reason>>)
                          \o <<"\n\nI can only help with:">> >>
              /\ pending' = {}
              /\ status' = "running"
              /\ execPhases' = 0
              /\ reviews' = 0
              /\ orch' = IdleOrch
              /\ "execution_results" \notin shared'.written
              /\ "review_decision" \notin shared'.written]_vars

\* the dynamic workflow has yielded the rejection carrying the reason "why"
C17_Witness ==
    /\ Dynamic
    /\ active = "reject_query"
    /\ Len(outputs) = 1
    /\ CountToken(outputs[1], "why") = 1
    /\ execPhases = 0

\* C18: output_existing yields a text with one section for every
\* ExecutionResult the workers have produced so far in the run, followed by
\* the note carrying the rejection reason, and sends nothing
C18_OutputExistingComplete ==
    [][\A m \in Inbox("output_existing", "TriageReviewResult") :
          m \notin pending' =>
             /\ Len(outputs') = 1
             /\ produced < MaxProduced =>
                    CountToken(outputs'[1], "## ") = produced
             /\ m.data.rejection_reason # "" =>
                    SubSeq(outputs'[1], Len(outputs'[1]) - 2, Len(outputs'[1]))
                        = <<"\n\n---\n\n*Note: ", m.data.rejection_reason, "*">>
             /\ pending' = {}
             /\ orch' = IdleOrch]_vars

-----------------------------------------------------------------------------
(* Properties of the triage workflow *)

\* C19: whenever a message is in flight to aggregate_responses, every
\* fan-out target has handled the dispatched message and its agent call has
\* returned, and the message holds exactly one AgentResponse per target, the
\* empty placeholder for each target without an assigned task; the
\* aggregator runs only on such a message
C19_FanInComplete ==
    /\ \A m \in pending :
          m.to = "aggregate_responses" =>
             /\ \A e \in SeqRange(FilteredExecutors) :
                   /\ Inbox(e, "TriageResult") = {}
                   /\ calls[e] = <<>>
                   /\ Cardinality({i \in 1..Len(m.data.results) :
                                      m.data.results[i].executor_id = e}) = 1
                   /\ (\A k \in 1..Len(shared.tasks) :
                          shared.tasks[k].agent # AgentKey(e)) =>
                         \A i \in 1..Len(m.data.results) :
                             m.data.results[i].executor_id = e
                                 => m.data.results[i].text = ""
             /\ Len(m.data.results) = Len(FilteredExecutors)
    /\ active = "aggregate_responses" =>
          /\ calls = NoCalls
          /\ fanin = EmptyFanIn
          /\ \A e \in SeqRange(FilteredExecutors) : Inbox(e, "TriageResult") = {}

\* the list is in flight with the placeholder of a target without task next
\* to the answer of a target with one
C19_Witness ==
    \E m \in Inbox("aggregate_responses", "list") :
        /\ \A k \in 1..Len(shared.tasks) : shared.tasks[k].agent # "service_health"
        /\ \E i, j \in 1..Len(m.data.results) :
              /\ m.data.results[i].executor_id = "service_health_executor"
              /\ m.data.results[i].text = ""
              /\ m.data.results[j].text = "answer"

-----------------------------------------------------------------------------
(* The final formatters on results whose response text may be empty *)

\* response.text of a worker: empty or not
WorkerTexts == {"", "answer"}

\* the result lists of a step: the i-th result is the i-th agent's
FormatLists ==
    UNION {{rs \in [1..k -> [agent : Agents, question : Questions,
                             response : WorkerTexts]] :
                \A i \in 1..k : rs[i].agent = AgentAt(i)} : k \in 1..MaxPlanLen}

\* the results dicts of a run that executed at least one step
FormatResults ==
    UNION {[K -> FormatLists] : K \in (SUBSET (1..MaxStepNum)) \ {{}}}

\* the shared state of a run of the dynamic workflow that has stored results
FormatShared(results) ==
    LET s1 == set_shared_state(InitShared, "conversation_history",
                               <<[role |-> "user", text |-> "status?"]>>)
        s2 == set_shared_state(s1, "original_query", "status?")
        s3 == set_shared_state(s2, "is_retry", FALSE)
        s4 == set_shared_state(s3, "retry_count", 0)
        s5 == set_shared_state(s4, "current_plan", <<>>)
    IN  set_shared_state(s5, "execution_results", results)

\* the prompt of the one review of such a run
FormatPrompt(results) ==
    ReviewPrompt([execution_results |-> results, original_query |-> "status?",
                  is_retry |-> FALSE], 0)

\* a run at the point where the message of a terminal formatter is in flight:
\* a complete decision at final_aggregator, a declined review at
\* output_existing, or the joined responses at aggregate_responses
FormatInit ==
    /\ status = "running"
    /\ orch = IdleOrch
    /\ outputs = <<>>
    /\ fanin = EmptyFanIn
    /\ calls = NoCalls
    /\ execPhases = 1
    /\ reviews = 1
    /\ obs = ObsIdle
    /\ store = StoreIdle
    /\ \/ \E results \in FormatResults, summary \in Summaries :
             /\ workflow = "dynamic"
             /\ shared = FormatShared(results)
             /\ gathered = <<>>
             /\ prompt = FormatPrompt(results)
             /\ produced = Min(NumResults(results), MaxProduced)
             /\ active = "route_review"
             /\ pending = Edge("final_aggregator",
                               ReviewDecision([is_complete |-> TRUE, summary |-> summary],
                                              [execution_results |-> results,
                                               original_query |-> "status?"]))
       \/ \E results \in FormatResults, reason \in Reasons :
             /\ workflow = "dynamic"
             /\ shared = FormatShared(results)
             /\ gathered = <<>>
             /\ prompt = FormatPrompt(results)
             /\ produced = Min(NumResults(results), MaxProduced)
             /\ active = "review_mode_triage"
             /\ pending = Edge("output_existing",
                               TriageReviewResult([accept_review |-> FALSE,
                                                   new_plan |-> <<>>,
                                                   rejection_reason |-> reason]))
       \/ \E texts \in [1..Len(FilteredExecutors) -> WorkerTexts] :
             /\ workflow = "triage"
             /\ shared = InitShared
             /\ produced = 0
             /\ gathered = <<>>
             /\ prompt = <<>>
             /\ active = FilteredExecutors[Len(FilteredExecutors)]
             /\ pending = Edge("aggregate_responses",
                               [type |-> "list",
                                results |-> [i \in 1..Len(FilteredExecutors) |->
                                    AgentResponse(FilteredExecutors[i], texts[i])]])

FormatNext == aggregate \/ output_existing \/ aggregate_responses

FormatSpec == FormatInit /\ [][FormatNext]_vars

-----------------------------------------------------------------------------
(* A retry execution after a first phase of any modelled plan *)

\* the results a first phase stores for a plan all of whose workers answered
ResultsOfPlan(plan) ==
    [n \in PlanStepNums(plan) |->
        [j \in 1..Len(StepTasks(plan, n, 1)) |->
            ExecutionResult(plan[StepTasks(plan, n, 1)[j]], "answer")]]

\* the decision of a first review that found the results incomplete
RetryDecision(plan) ==
    ReviewDecision([is_complete |-> FALSE, summary |-> ""],
                   [execution_results |-> ResultsOfPlan(plan),
                    original_query |-> "status?"])

\* the shared state once route_review has counted the retry
RetryShared(plan) ==
    LET s1 == set_shared_state(InitShared, "conversation_history",
                               <<[role |-> "user", text |-> "status?"]>>)
        s2 == set_shared_state(s1, "original_query", "status?")
        s3 == set_shared_state(s2, "current_plan", plan)
        s4 == set_shared_state(s3, "execution_results", ResultsOfPlan(plan))
        s5 == set_shared_state(s4, "review_decision", RetryDecision(plan))
        s6 == set_shared_state(s5, "retry_count", 1)
    IN  set_shared_state(s6, "is_retry", TRUE)

\* a run at the point where the retry planner's accepted new plan is in
\* flight to the orchestrator
RetryInit ==
    /\ workflow = "dynamic"
    /\ status = "running"
    /\ orch = IdleOrch
    /\ outputs = <<>>
    /\ fanin = EmptyFanIn
    /\ calls = NoCalls
    /\ execPhases = 1
    /\ reviews = 1
    /\ gathered = <<>>
    /\ obs = ObsIdle
    /\ store = StoreIdle
    /\ active = "review_mode_triage"
    /\ \E plan \in PlansUpTo(MaxPlanLen) \ {<<>>} :
       \E new_plan \in PlansUpTo(MaxPlanLen) \ {<<>>} :
          /\ shared = RetryShared(plan)
          /\ produced = Len(plan)
          /\ prompt = ReviewPrompt([execution_results |-> ResultsOfPlan(plan),
                                    original_query |-> "status?",
                                    is_retry |-> FALSE], 0)
          /\ pending = Edge("orchestrator",
                            TriageReviewResult([accept_review |-> TRUE,
                                                new_plan |-> new_plan,
                                                rejection_reason |-> ""]))

RetryNext ==
    \/ execute_new_plan
    \/ \E i \in 1..Len(orch.plan) : TaskStart(i)
    \/ \E i \in 1..Len(orch.plan) : \E response \in Responses : TaskReturn(i, response)
    \/ \E i \in 1..Len(orch.plan) : TaskRaise(i)

RetrySpec == RetryInit /\ [][RetryNext]_vars

-----------------------------------------------------------------------------
(* A run on a workflow object that served an earlier run *)

\* the plan of the earlier run, its question unlike any of the new run
StalePlan ==
    <<[step |-> 1, agent |-> "servicenow", question |-> "old"],
      [step |-> 2, agent |-> "log_analytics", question |-> "old"]>>

\* the shared state an earlier run for another query left behind, having
\* used its retry
StaleShared ==
    LET results == ResultsOfPlan(StalePlan)
        s1 == set_shared_state(InitShared, "conversation_history",
                               <<[role |-> "user", text |-> "old?"]>>)
        s2 == set_shared_state(s1, "original_query", "old?")
        s3 == set_shared_state(s2, "current_plan", <<StalePlan[1]>>)
        s4 == set_shared_state(s3, "execution_results", results)
        s5 == set_shared_state(s4, "review_decision",
                  ReviewDecision([is_complete |-> FALSE, summary |-> ""],
                                 [execution_results |-> results,
                                  original_query |-> "old?"]))
        s6 == set_shared_state(s5, "retry_count", 1)
    IN  set_shared_state(s6, "is_retry", TRUE)

\* the start of a run of the dynamic workflow on the module-level workflow
\* object: whether the engine hands the run a cleared shared state or the
\* one the earlier run left is not decided by this repository
ReuseInit ==
    /\ workflow = "dynamic"
    /\ status = "running"
    /\ pending = Edge("store_query",
                      [type |-> "WorkflowInput", query |-> "status?",
                       messages |-> <<>>])
    /\ shared \in {InitShared, StaleShared}
    /\ orch = IdleOrch
    /\ outputs = <<>>
    /\ fanin = EmptyFanIn
    /\ calls = NoCalls
    /\ active = ""
    /\ execPhases = 0
    /\ reviews = 0
    /\ produced = 0
    /\ gathered = <<>>
    /\ prompt = <<>>
    /\ obs = ObsIdle
    /\ store = StoreIdle

ReuseSpec == ReuseInit /\ [][DynamicNext]_vars

\* number of results of a dict whose response is not empty
NonEmptyResults(results) ==
    LET rs == ResultsInOrder(results)
    IN  Cardinality({i \in 1..Len(rs) : rs[i].response # ""})

\* number of sections of the text yielded last
SectionsYielded == CountToken(outputs'[Len(outputs')], "## ")

\* C20: the text a formatter yields has a section for each result whose
\* output is not empty and for no other: the aggregator's fallback and
\* output_existing in the dynamic workflow, aggregate_responses in the
\* triage workflow
C20_EmptyOutputOmitted ==
    [][/\ \A m \in Inbox("final_aggregator", "ReviewDecision") :
            (m \notin pending' /\ m.data.summary = "") =>
                SectionsYielded = NonEmptyResults(m.data.execution_results)
       /\ \A m \in Inbox("output_existing", "TriageReviewResult") :
            m \notin pending' =>
                SectionsYielded = NonEmptyResults(shared.execution_results)
       /\ \A m \in Inbox("aggregate_responses", "list") :
            m \notin pending' =>
                SectionsYielded = Cardinality({i \in 1..Len(m.data.results) :
                                                 m.data.results[i].text # ""})]_vars

-----------------------------------------------------------------------------
(* Properties of the recorded results *)

\* the result list rs holds, position by position, the results of tasks ts
ResultsOf(rs, ts) ==
    /\ Len(rs) = Len(ts)
    /\ \A j \in 1..Len(rs) :
          rs[j].agent = ts[j].agent /\ rs[j].question = ts[j].question

\* C21 as stated: the list a step's gather returned is in the order in
\* which the step's tasks completed
C21_CompletionOrder ==
    gathered # <<>> => ResultsOf(gathered.results, gathered.order)

\* C21 as amended: the list a step's gather returned is in the submission
\* (plan) order of the step's tasks, whatever their completion order
C21_SubmissionOrder ==
    gathered # <<>> => ResultsOf(gathered.results, gathered.tasks)

\* a gather has returned whose later-submitted task completed first
C21_Witness ==
    /\ gathered # <<>>
    /\ Len(gathered.tasks) = 2
    /\ gathered.order = <<gathered.tasks[2], gathered.tasks[1]>>
    /\ gathered.results[1].agent = gathered.tasks[1].agent

-----------------------------------------------------------------------------
(* Properties of the formatters as functions of the results *)

ReverseSeq(q) == [i \in 1..Len(q) |-> q[Len(q) + 1 - i]]

\* the results with the list of every step permuted (here: reversed)
PermuteSteps(results) == [k \in DOMAIN results |-> ReverseSeq(results[k])]

\* the text yielded last by the step being taken
YieldedText == outputs'[Len(outputs')]

\* C22: the text the final formatter yields, and the formatted results the
\* reviewer and the retry planner are given, are the same for the results
\* and for the results with the list of each step permuted
C22_OrderIndependent ==
    [][/\ \A m \in Inbox("final_aggregator", "ReviewDecision") :
            (m \notin pending' /\ m.data.summary = "") =>
                /\ YieldedText = _format_final_output(PermuteSteps(m.data.execution_results), "")
                /\ _format_results(m.data.execution_results)
                      = _format_results(PermuteSteps(m.data.execution_results))
       /\ \A m \in Inbox("output_existing", "TriageReviewResult") :
            m \notin pending' =>
                /\ YieldedText = _format_final_output(PermuteSteps(shared.execution_results),
                                                  m.data.rejection_reason)
                /\ _format_execution_results(shared.execution_results)
                      = _format_execution_results(PermuteSteps(shared.execution_results))]_vars

\* the titles of the sections of a text, in order
RECURSIVE SectionTitles(_)
SectionTitles(text) ==
    IF Len(text) < 2 THEN <<>>
    ELSE IF Head(text) = "## " THEN <<text[2]>> \o SectionTitles(Tail(Tail(text)))
    ELSE SectionTitles(Tail(text))

\* number of results stored under the steps before step k
ResultsBefore(results, k) ==
    SumLens(results, {j \in DOMAIN results : j < k})

\* the sections of a text are those of the results, step after step in
\* ascending step number, each step in the order of its list
AscendingSections(text, results) ==
    LET titles == SectionTitles(text)
    IN  /\ Len(titles) = NumResults(results)
        /\ \A k \in DOMAIN results : \A i \in 1..Len(results[k]) :
              titles[ResultsBefore(results, k) + i] = AgentTitle(results[k][i].agent)

\* C23: a run of the final formatter leaves the stored StepResults (and the
\* rest of the shared state) as they were, and the text it yields has the
\* sections of the results in ascending step-number order
C23_FormatPure ==
    [][/\ \A m \in Inbox("final_aggregator", "ReviewDecision") :
            (m \notin pending' /\ m.data.summary = "") =>
                /\ shared' = shared
                /\ AscendingSections(YieldedText, m.data.execution_results)
       /\ \A m \in Inbox("output_existing", "TriageReviewResult") :
            m \notin pending' =>
                /\ shared' = shared
                /\ AscendingSections(YieldedText, shared.execution_results)]_vars

\* output_existing has formatted results of two steps with lists of
\* different lengths, so that the order of the steps shows in the text
C23_Witness ==
    /\ active = "output_existing"
    /\ outputs # <<>>
    /\ DOMAIN shared.execution_results = {1, 2}
    /\ Len(shared.execution_results[1]) < Len(shared.execution_results[2])
    /\ SectionTitles(outputs[Len(outputs)])
          = <<AgentTitle(AgentAt(1)), AgentTitle(AgentAt(1)), AgentTitle(AgentAt(2))>>

-----------------------------------------------------------------------------
(* Properties of the progress notifications *)

\* the step is the part of a middleware of request c before next
MiddlewareBefore(c) ==
    obs.req[c].pc = "workflow" /\ obs'.req[c].pc = "invoked"

\* the step is the part of a middleware of request c after next
MiddlewareAfter(c) ==
    obs.req[c].pc = "returned" /\ obs'.req[c].pc = "workflow"

\* C26: a middleware that found no current stream puts nothing on any
\* stream and goes on: it reaches next, and when it returns the wrapped
\* agent or tool has run once for each middleware call; and a middleware
\* step puts nothing on a stream that is not active
C26_AbsentSinkNoOp ==
    [][\A c \in Convs :
         /\ (MiddlewareBefore(c) /\ obs'.req[c].mw = NoStream) =>
                /\ obs'.streams = obs.streams
                /\ obs'.req[c].nexts = obs.req[c].calls
         /\ (MiddlewareAfter(c) /\ obs.req[c].mw = NoStream) =>
                /\ obs'.streams = obs.streams
                /\ obs'.req[c].calls = obs.req[c].calls + 1
                /\ obs'.req[c].nexts = obs'.req[c].calls
         /\ (MiddlewareBefore(c) \/ MiddlewareAfter(c)) =>
                \A d \in Convs :
                    ~obs.streams[d].active =>
                        obs'.streams[d].queue = obs.streams[d].queue]_vars

\* a request that found no stream has been through a whole middleware, its
\* agent has run once and nothing was put on any stream
C26_Witness ==
    \E c \in Convs :
        /\ obs.req[c].stream = NoStream
        /\ obs.req[c].mw = NoStream
        /\ obs.req[c].pc = "workflow"
        /\ obs.req[c].calls = 1
        /\ obs.req[c].nexts = 1
        /\ \A d \in Convs : obs.streams[d].queue = <<>> /\ obs.delivered[d] = <<>>

\* the requests whose workflow is running
InProgress == {c \in Convs : obs.req[c].pc \in {"workflow", "invoked", "returned"}}

\* the events put on the stream of conversation c so far and still there or
\* delivered
EventsOf(c) ==
    {obs.streams[c].queue[i] : i \in 1..Len(obs.streams[c].queue)}
        \cup {obs.delivered[c][i] : i \in 1..Len(obs.delivered[c])}

\* C27: the events on the stream of a conversation are those of that
\* conversation's run, and while a request that found its stream is in
\* progress its stream is the one its agents' middleware find, whatever
\* other requests start or finish
C27_PerRunScoping ==
    /\ \A c \in Convs : \A e \in EventsOf(c) : e = Sentinel \/ e.run = c
    /\ \A c \in InProgress :
          obs.req[c].stream # NoStream =>
              get_current_stream(obs, "observability") = obs.req[c].stream

-----------------------------------------------------------------------------
(* Properties of the review prompt *)

ForcedAcceptance == "IMPORTANT: Maximum retries reached. Accept the result."

LenientAcceptance ==
    "IMPORTANT: This is a retry. Accept the result unless there's a critical gap."

\* C29: the prompt of a review activated with retry_count >= 1 carries the
\* forced-acceptance instruction, the prompt of a review of a retry
\* execution carries the lenient-acceptance instruction, and the prompt of
\* a review with retry_count = 0 that is not a retry carries neither
C29_ReviewInstructions ==
    [][\A m \in Inbox("review_executor", "ReviewRequest") :
         m \notin pending' =>
            LET retry_count == GetOr0(shared, "retry_count")
            IN  /\ retry_count >= 1 => CountToken(prompt', ForcedAcceptance) = 1
                /\ m.data.is_retry => CountToken(prompt', LenientAcceptance) = 1
                /\ (retry_count = 0 /\ ~m.data.is_retry) =>
                       /\ CountToken(prompt', ForcedAcceptance) = 0
                       /\ CountToken(prompt', LenientAcceptance) = 0]_vars

\* the second review of a run has been activated, after one retry, and its
\* prompt carries both instructions
C29_Witness ==
    /\ active = "review_executor"
    /\ reviews = 2
    /\ GetOr0(shared, "retry_count") = 1
    /\ CountToken(prompt, ForcedAcceptance) = 1
    /\ CountToken(prompt, LenientAcceptance) = 1

-----------------------------------------------------------------------------
(* Properties of the selection functions *)

\* the deliveries the step being taken adds
Routed == pending' \ pending

\* the step routes the message to one target, a member of target_ids, which
\* is the target the given choice names
OneTarget(target_ids, choice(_)) ==
    /\ Cardinality(Routed) = 1
    /\ \A n \in Routed :
          /\ n.to \in SeqRange(target_ids)
          /\ n.to = choice(n.data)

UserPathOf(d) ==
    IF d.should_reject /\ d.clarify THEN "clarify_executor"
    ELSE IF d.should_reject THEN "reject_query"
    ELSE "orchestrator"

ReviewOutcomeOf(d) ==
    IF d.is_complete THEN "final_aggregator" ELSE "triage_review_bridge"

TriageReviewOutcomeOf(d) ==
    IF d.accept_review /\ Len(d.new_plan) > 0 THEN "orchestrator"
    ELSE "output_existing"

DispatchOrRejectOf(d) ==
    IF d.should_reject \/ Len(d.tasks) = 0 THEN "reject_query"
    ELSE "dispatch_to_agents"

\* C30: each routing step of the four multi-selection edge groups delivers
\* the message to exactly one target, that target is one of the group's
\* target ids, and it is given by the fields of the routed message alone
C30_SelectionExactlyOne ==
    [][status' = "running" =>
         /\ \A m \in Inbox("route_user_triage", "TriageUserResult") :
               m \notin pending' => OneTarget(UserTriageTargets, UserPathOf)
         /\ \A m \in Inbox("route_review", "ReviewDecision") :
               m \notin pending' => OneTarget(ReviewTargets, ReviewOutcomeOf)
         /\ \A m \in Inbox("review_mode_triage", "ReviewModeRequest") :
               m \notin pending' =>
                   OneTarget(TriageReviewTargets, TriageReviewOutcomeOf)
         /\ \A m \in Inbox("parse_triage_output", "AgentExecutorResponse") :
               m \notin pending' =>
                   OneTarget(DispatchTargets, DispatchOrRejectOf)]_vars

\* a triage result that is not a rejection and has no task has been routed,
\* to reject_query alone
C30_Witness ==
    /\ active = "parse_triage_output"
    /\ status = "running"
    /\ Cardinality(pending) = 1
    /\ \E n \in pending :
          /\ n.to = "reject_query"
          /\ ~n.data.should_reject
          /\ n.data.tasks = <<>>

-----------------------------------------------------------------------------
(* Properties of the Execute phases and of the Reject and Clarify terminals *)

\* a handler of the orchestrator returns in this step
PhaseEnds == orch.running /\ ~orch'.running /\ status' = "running"

\* the key under which the results of step n of the running plan are stored:
\* n itself, counted from the last key of the earlier results in a retry
StoredKey(o, n) ==
    IF o.retry /\ DOMAIN o.existing # {} THEN MaxKey(o.existing) + n ELSE n

\* C24: while a plan runs a task that was sent is not sent again; when the
\* phase ends every task of the plan has been sent, the results stored for
\* a step are as many as the plan's tasks of that step, each with its
\* task's agent and question, under the step's number (counted from the
\* last earlier step in a retry phase); and a step of the run leaves every
\* result list already recorded as it was
C24_OneResultPerTask ==
    [][/\ (orch.running /\ orch'.running) =>
             \A i \in 1..Len(orch.plan) :
                 orch.sent[i] # <<>> => orch'.sent[i] = orch.sent[i]
       /\ PhaseEnds =>
             LET stored == shared'.execution_results
             IN  /\ \A i \in 1..Len(orch.plan) :
                       orch.tstate[i] \in {"called", "returned"} /\ orch.sent[i] # <<>>
                 /\ \A n \in PlanStepNums(orch.plan) :
                       LET idx == StepTasks(orch.plan, n, 1)
                           key == StoredKey(orch, n)
                       IN  /\ key \in DOMAIN stored
                           /\ Len(stored[key]) = Len(idx)
                           /\ \A j \in 1..Len(idx) : \E q \in 1..Len(stored[key]) :
                                 /\ stored[key][q].agent = orch.plan[idx[j]].agent
                                 /\ stored[key][q].question = orch.plan[idx[j]].question
       /\ \A k \in DOMAIN shared.execution_results :
             /\ k \in DOMAIN shared'.execution_results
             /\ shared'.execution_results[k] = shared.execution_results[k]]_vars

\* C25: a step of a run whose triage result has been routed to reject_query
\* or to clarify_executor yields the run's one text output and leaves the
\* run not failed
C25_TerminalsAlwaysAnswer ==
    [][(Inbox("reject_query", "TriageUserResult") # {}
            \/ Inbox("clarify_executor", "TriageUserResult") # {}) =>
          (status' = "running" /\ Len(outputs') = 1 /\ pending' = {})]_vars

\* C28: the orchestrator takes the retry planner's new plan as the plan of
\* the second Execute phase, and when that phase ends the review request it
\* sends is flagged as a retry and holds every result of the first phase
\* and one result for each task of the new plan
C28_SecondPhaseInput ==
    [][/\ \A m \in Inbox("orchestrator", "TriageReviewResult") :
             (m \notin pending' /\ status' = "running") =>
                 /\ orch'.plan = m.data.new_plan
                 /\ orch'.retry
       /\ (RetryEnds /\ execPhases = 2) =>
             \E r \in pending' :
                 /\ r.to = "review_executor"
                 /\ r.data.is_retry
                 /\ \A k \in DOMAIN orch.existing :
                       \A j \in 1..Len(orch.existing[k]) :
                         \E i \in 1..Len(ResultsInOrder(r.data.execution_results)) :
                             ResultsInOrder(r.data.execution_results)[i]
                                 = orch.existing[k][j]
                 /\ NumResults(r.data.execution_results)
                       = NumResults(orch.existing) + Len(orch.plan)]_vars

-----------------------------------------------------------------------------
(* Properties of the dispatch and of the filtered executors *)

\* the executors a delivery set addresses
TargetsOf(deliveries) == {n.to : n \in deliveries}

\* C36: parse_triage_output routes its result to reject_query when
\* should_reject is true or there is no task and to the dispatcher
\* otherwise; a result at the dispatcher passes the dispatcher's guard and
\* its dispatch delivers it to each of the three agent executors; and a run
\* that has not failed and has nothing left to do has yielded an output
C36_DispatchNeverDrops ==
    [][/\ \A m \in Inbox("parse_triage_output", "AgentExecutorResponse") :
             (m \notin pending' /\ status' = "running") =>
                 \A n \in Routed :
                     (n.to = "reject_query")
                         <=> (n.data.should_reject \/ Len(n.data.tasks) = 0)
       /\ \A m \in Inbox("dispatch_to_agents", "TriageResult") :
             /\ ~m.data.should_reject /\ Len(m.data.tasks) > 0
             /\ m \notin pending' =>
                   /\ TargetsOf(Routed) = SeqRange(FilteredExecutors)
                   /\ Cardinality(Routed) = Len(FilteredExecutors)
                   /\ \A n \in Routed : n.data = m.data
       /\ (/\ workflow = "triage" /\ status' = "running"
           /\ pending' = {} /\ calls' = NoCalls) => Len(outputs') = 1]_vars

\* the dispatcher has broadcast a result to the three agent executors
C36_Witness ==
    /\ active = "dispatch_to_agents"
    /\ status = "running"
    /\ TargetsOf(pending) = SeqRange(FilteredExecutors)
    /\ \A n \in pending : ~n.data.should_reject /\ n.data.tasks # <<>>

\* the responses executor e hands to the fan-in in the step being taken:
\* buffered behind its earlier ones, or delivered in the joined list
EmittedBy(e) ==
    {r \in [type : {"AgentResponse"}, executor_id : SeqRange(FilteredExecutors),
            text : AgentTexts] :
        \/ fanin'[e] = Append(fanin[e], r)
        \/ /\ fanin[e] = <<>>
           /\ \E n \in Routed :
                 /\ n.to = "aggregate_responses"
                 /\ \E i \in 1..Len(FilteredExecutors) :
                       FilteredExecutors[i] = e /\ n.data.results[i] = r}

\* number of tasks of the list assigned to agent_key with question q
Assigned(tasks, agent_key, q) ==
    Cardinality({i \in 1..Len(tasks) :
                    tasks[i].agent = agent_key /\ tasks[i].question = q})

-----------------------------------------------------------------------------
(* Properties of the shared state *)

\* C34: once store_query has written them, is_retry is true exactly when
\* retry_count is at least 1; a step that changes either is a step of
\* store_query or of route_review; and a ReviewRequest waiting at the
\* reviewer carries the is_retry of the shared state
C34_RetryFlagAgrees ==
    [][/\ {"is_retry", "retry_count"} \subseteq shared'.written =>
             (shared'.is_retry <=> shared'.retry_count >= 1)
       /\ (shared'.is_retry # shared.is_retry
              \/ shared'.retry_count # shared.retry_count) =>
             active' \in {"store_query", "route_review"}
       /\ \A m \in pending' :
             (m.to = "review_executor" /\ m.data.type = "ReviewRequest") =>
                 m.data.is_retry = shared'.is_retry]_vars

\* the request of a retry execution waits at the reviewer
C34_Witness ==
    /\ shared.is_retry
    /\ shared.retry_count = 1
    /\ \E m \in Inbox("review_executor", "ReviewRequest") : m.data.is_retry

\* C35: the results carried by the message waiting at the reviewer, at
\* route_review, at the bridge, at the retry planner or at the aggregator
\* are the execution_results of the shared state, and while a message waits
\* at output_existing the shared execution_results are those of the
\* decision of the last review
C35_SharedMatchesMessage ==
    Dynamic =>
        \A m \in pending :
            /\ m.to \in {"review_executor", "route_review", "triage_review_bridge",
                         "final_aggregator"} =>
                  m.data.execution_results = shared.execution_results
            /\ m.to = "review_mode_triage" =>
                  m.data.previous_results = shared.execution_results
            /\ m.to = "output_existing" =>
                  /\ "review_decision" \in shared.written
                  /\ shared.review_decision.execution_results
                        = shared.execution_results

\* after a retry execution the retry planner has declined and its result
\* waits at output_existing, the shared results being those of both phases
C35_Witness ==
    /\ Dynamic
    /\ execPhases = 2
    /\ \E m \in pending : m.to = "output_existing"
    /\ NumResults(shared.execution_results) = 2
    /\ shared.review_decision.execution_results = shared.execution_results

-----------------------------------------------------------------------------
(* Properties of the context of a retry execution *)

\* C33: the context given to the tasks of a step of a retry execution is
\* empty, or built from the results of the new plan's previous step, or
\* built from the results of the last step of the earlier results
C33_RetryContextAfterOriginal ==
    (orch.running /\ orch.retry /\ DOMAIN orch.existing # {}) =>
        orch.context \in
            {<<>>,
             ContextOf(Get(orch.all_results, orch.step - 1)),
             ContextOf(orch.existing[MaxKey(orch.existing)])}

-----------------------------------------------------------------------------
(* Properties of a run on a reused workflow object *)

\* a results dict holds a result of the earlier run
StaleResults(results) ==
    \E k \in DOMAIN results : \E j \in 1..Len(results[k]) :
        results[k][j].question = "old"

\* a text holds a question or the query of the earlier run
StaleText(text) == CountToken(text, "old") + CountToken(text, "old?") > 0

\* a message in flight carries something of the earlier run
StaleMessage(d) ==
    \/ "original_query" \in DOMAIN d /\ d.original_query = "old?"
    \/ "execution_results" \in DOMAIN d /\ StaleResults(d.execution_results)
    \/ "previous_results" \in DOMAIN d /\ StaleResults(d.previous_results)

\* C32: store_query leaves retry_count 0, is_retry false and the query of
\* this run in the shared state; from then on no message, no input of the
\* orchestrator, no review prompt and no output holds anything of an
\* earlier run, the results that execute_new_plan and output_existing read
\* are of this run, and the first incomplete review of the run is granted
\* its retry
C32_NoLeakAcrossRuns ==
    [][/\ active' = "store_query" =>
             /\ shared'.retry_count = 0
             /\ ~shared'.is_retry
             /\ shared'.original_query = "status?"
       /\ active' # "" =>
             /\ \A m \in pending' : ~StaleMessage(m.data)
             /\ ~StaleResults(orch'.existing)
             /\ orch'.original_query # "old?"
             /\ ~StaleText(prompt')
             /\ \A i \in 1..Len(outputs') : ~StaleText(outputs'[i])
             /\ \A i \in 1..Len(orch'.sent) : ~StaleText(orch'.sent[i])
       /\ \A m \in pending' :
             m.data.type = "TriageReviewResult" =>
                 ~StaleResults(shared'.execution_results)
       /\ \A m \in Inbox("route_review", "ReviewDecision") :
             (m \notin pending' /\ ~m.data.is_complete /\ reviews = 1) =>
                 /\ shared.retry_count = 0
                 /\ shared'.retry_count = 1]_vars

\* on a workflow object that kept the state of an earlier run, store_query
\* has reset the retry tracking while the earlier run's results are still
\* in the shared state
C32_Witness ==
    /\ active = "store_query"
    /\ shared.retry_count = 0
    /\ ~shared.is_retry
    /\ StaleResults(shared.execution_results)
    /\ \E m \in pending : m.to = "user_mode_triage"

-----------------------------------------------------------------------------
(* Shared-state writes and the tasks in flight *)

\* a worker task of the orchestrator's step batch, or a branch of the
\* triage workflow's fan-out, has been started and has not rejoined
InFlight ==
    \/ orch.running /\ \E i \in 1..Len(orch.tstate) :
                           orch.tstate[i] \in {"created", "called"}
    \/ \E e \in SeqRange(FilteredExecutors) :
           \/ calls[e] # <<>>
           \/ fanin[e] # <<>>
           \/ \E m \in pending : m.to = e

\* C31: a step taken while a batch task or a fan-out branch is in flight
\* changes the shared state only when it is the join of the last step of a
\* plan; execution_results is written only by the step that ends an Execute
\* phase, with no step of the plan left to run, and the same step sends the
\* ReviewRequest that carries the written results
C31_NoWriteWhileInFlight ==
    [][/\ (InFlight /\ shared' # shared) =>
             /\ PhaseEnds
             /\ \A i \in 1..Len(orch.tstate) : orch.tstate[i] # "created"
             /\ Cardinality({i \in 1..Len(orch.tstate) :
                                 orch.tstate[i] = "called"}) = 1
       /\ ( \/ shared'.execution_results # shared.execution_results
            \/ ("execution_results" \in shared'.written
                   /\ "execution_results" \notin shared.written) ) =>
             /\ ~orch'.running
             /\ active' = "orchestrator" \/ PhaseEnds
             /\ \E m \in pending' \ pending :
                   /\ m.to = "review_executor"
                   /\ m.data.type = "ReviewRequest"
                   /\ m.data.execution_results = shared'.execution_results]_vars

\* an Execute phase has ended at the join of a batch of two tasks: the
\* results are stored and the ReviewRequest is in flight
C31_Witness ==
    /\ ~orch.running
    /\ gathered # <<>>
    /\ Len(gathered.results) = 2
    /\ "execution_results" \in shared.written
    /\ \E m \in pending :
          /\ m.data.type = "ReviewRequest"
          /\ m.data.execution_results = shared.execution_results
          /\ \E k \in DOMAIN shared.execution_results :
                shared.execution_results[k] = gathered.results

-----------------------------------------------------------------------------
(* The events an EventStream delivers *)

\* the events iter_events yields from a queue: those before the first None
RECURSIVE BeforeSentinel(_)
BeforeSentinel(queue) ==
    IF queue = <<>> \/ Head(queue) = Sentinel THEN <<>>
    ELSE <<Head(queue)>> \o BeforeSentinel(Tail(queue))

\* stop has been called on the stream of conversation c
StopCalled(c) == obs.req[c].pc = "done" /\ obs.req[c].stream = c

\* the events delivered and still to be delivered are the emit calls made
\* between start and stop, in call order
C38_ExactlyTheActiveEvents ==
    \A c \in Convs :
        obs.delivered[c] \o BeforeSentinel(obs.streams[c].queue) = obs.hist[c].log

\* C38: iter_events delivers the events emitted between start and stop, in
\* emission order, and none emitted before start or after stop; once stop
\* has been called the stream takes no more events and the iteration has
\* ended or ends at the sentinel on the queue
C38_DeliversActiveEventsThenEnds ==
    \A c \in Convs :
        /\ obs.delivered[c] \o BeforeSentinel(obs.streams[c].queue) = obs.hist[c].log
        /\ StopCalled(c) =>
              /\ ~obs.streams[c].active
              /\ \/ c \notin obs.registered
                 \/ \E i \in 1..Len(obs.streams[c].queue) :
                       obs.streams[c].queue[i] = Sentinel

-----------------------------------------------------------------------------
(* The cached conversation list and PostgreSQL *)

\* C39: after any sequence of saves, deletes, lists and expiries of the
\* cache key, list_conversations in redis mode returns the ids the
\* PostgreSQL backend lists for the user and the history window
C39_ListMatchesPostgres ==
    store.op = "list" => store.listed = {r.id : r \in PgList(store.rows)}

====
